---- MODULE Spec2Model ----
(***************************************************************************)
(* Two components of the map editor.                                       *)
(*                                                                         *)
(* Three-way merge of scene graphs:                                        *)
(* scene::merge::ThreeWayMergeOperation (libs/scene/merge).                *)
(*                                                                         *)
(* CreateFromComparisonResults takes two comparison results (base<->source *)
(* and base<->target) and reconciles the source's entity differences       *)
(* against the target's into an ordered list of merge actions.  The call   *)
(* is synchronous, so it is one action of the state machine; the state     *)
(* holds the call's arguments (the two comparison results and the target   *)
(* scene they refer to) and what the call left behind (the operation or    *)
(* the exception).                                                         *)
(*                                                                         *)
(* render::ContinuousBuffer (libs/render) hands out chunks of one          *)
(* continuous block of memory by handle; its state machine (BufferSpec)    *)
(* has the client's allocate and deallocate calls as its actions.          *)
(***************************************************************************)
EXTENDS Integers, Sequences, FiniteSets, TLC

VARIABLES
    baseToSource,   \* ComparisonResult base <-> source (argument)
    baseToTarget,   \* ComparisonResult base <-> target (argument)
    targetScene,    \* entities below baseToTarget's source root: name -> child fingerprints
    operation,      \* the ThreeWayMergeOperation handed to the caller, or NoOperation
    exception,      \* the exception that left CreateFromComparisonResults, or NoException
    visited,        \* iterations of the loop over _sourceDifferences that were entered
    pc,             \* "ready" before the call, "returned" or "thrown" after it
    \* render::ContinuousBuffer (libs/render/ContinuousBuffer.h) and its client
    _bufferSize,    \* _buffer.size()
    _slots,         \* std::vector<SlotInfo>; the handle h is the index h + 1
    _emptySlots,    \* std::stack<Handle>, the top last
    allocations,    \* the client's allocations: <<handle, size asked for>>
    bufferStatus,   \* "none" without a buffer, "ok", or "aborted" by an assert()
    calls,          \* allocate and deallocate calls the client has made
    \* a call of the static ThreeWayMergeOperation::KeyValueDiffHasConflicts
    sourceArgument, \* argument
    targetArgument, \* argument
    hasConflicts    \* the values returned: <<>> before the call, one value after it

mergeVars == <<baseToSource, baseToTarget, targetScene, operation, exception, visited, pc>>
bufferVars == <<_bufferSize, _slots, _emptySlots, allocations, bufferStatus, calls>>
classifierVars == <<sourceArgument, targetArgument, hasConflicts>>
vars == <<mergeVars, bufferVars, classifierVars>>

(***************************************************************************)
(* Bounds of the explored inputs.                                          *)
(***************************************************************************)
\* Entity differences in the two comparison results together (two entity names).
MaxDiffs == 3
\* Key-value and primitive differences of one entity name, both sides together.
MaxNested == 3

(***************************************************************************)
(* The universe the inputs are drawn from.                                 *)
(***************************************************************************)
\* Entity names.
Names == {"e1", "e2"}
\* The orders in which a loop over a dictionary keyed by entity name can visit
\* the names.  The type of the dictionaries is declared outside these sources:
\* an ordered map visits the names ascending, a hash map in an order of its
\* own; neither keeps the order of insertion.
IterationOrders ==
    {order \in [1..Cardinality(Names) -> Names] :
        \A i, j \in 1..Cardinality(Names) : order[i] = order[j] => i = j}

\* Spawnarg keys: "k" and "K" differ in letter case only, "j" is another key.
Keys == {"k", "K", "j"}
Values == {"1", "2"}
\* Fingerprints of primitives and of whole entities.
PrimitiveFingerprints == {"p", "q"}
EntityFingerprints == {"f1", "f2"}

EntityTypes == {"EntityMissingInSource", "EntityMissingInBase", "EntityPresentButDifferent"}
KeyValueTypes == {"KeyValueAdded", "KeyValueRemoved", "KeyValueChanged"}
PrimitiveTypes == {"PrimitiveAdded", "PrimitiveRemoved"}

\* Scene nodes are identified by the scene they live in, their entity's name
\* and, for a primitive, its fingerprint.
NullNode == [scene |-> "null", name |-> "", fingerprint |-> ""]
EntityNode(scene, name) == [scene |-> scene, name |-> name, fingerprint |-> ""]
PrimitiveNode(scene, name, fp) == [scene |-> scene, name |-> name, fingerprint |-> fp]
RootNode(scene) == [scene |-> scene, name |-> "", fingerprint |-> ""]

NoOperation == [none |-> TRUE]
NoException == [what |-> "none", entity |-> ""]

(***************************************************************************)
(* Merge actions (the Merge Action Model).                                 *)
(***************************************************************************)
AddEntityAction(node, targetRoot) ==
    [type |-> "AddEntity", node |-> node, parent |-> targetRoot]
RemoveEntityAction(node) ==
    [type |-> "RemoveEntity", node |-> node]
AddChildAction(node, parent) ==
    [type |-> "AddChild", node |-> node, parent |-> parent]
RemoveChildAction(node) ==
    [type |-> "RemoveChild", node |-> node]
AddEntityKeyValueAction(entity, key, value) ==
    [type |-> "AddKeyValue", entity |-> entity, key |-> key, value |-> value]
RemoveEntityKeyValueAction(entity, key) ==
    [type |-> "RemoveKeyValue", entity |-> entity, key |-> key, value |-> ""]
ChangeEntityKeyValueAction(entity, key, value) ==
    [type |-> "ChangeKeyValue", entity |-> entity, key |-> key, value |-> value]
EntityConflictResolutionAction(conflictingEntity, sourceAction) ==
    [type |-> "EntityConflict", conflictingEntity |-> conflictingEntity,
     sourceAction |-> sourceAction]
EntityKeyValueConflictResolutionAction(conflictingEntity, sourceAction, targetAction) ==
    [type |-> "EntityKeyValueConflict", conflictingEntity |-> conflictingEntity,
     sourceAction |-> sourceAction, targetAction |-> targetAction]

ConflictTypes == {"EntityConflict", "EntityKeyValueConflict"}
KeyValueActionTypes == {"AddKeyValue", "RemoveKeyValue", "ChangeKeyValue"}

(***************************************************************************)
(* Helpers on sequences.                                                   *)
(***************************************************************************)
RECURSIVE Flatten(_)
Flatten(ss) == IF ss = <<>> THEN <<>> ELSE Head(ss) \o Flatten(Tail(ss))

(***************************************************************************)
(* string::iequals on the keys of the universe: "K" folds to "k".          *)
(***************************************************************************)
ToLower(s) == IF s = "K" THEN "k" ELSE s
iequals(a, b) == ToLower(a) = ToLower(b)
\* FindTargetDiffByKey comparing the keys as they are spelt.
FindTargetDiffByKeyCaseSensitive(targetKeyValueDiffs, key) ==
    LET hits == {i \in 1..Len(targetKeyValueDiffs) : targetKeyValueDiffs[i].key = key}
    IN  IF hits = {} THEN 0 ELSE CHOOSE i \in hits : \A j \in hits : i <= j

(***************************************************************************)
(* FindTargetDiffByKey: the position of the first target difference whose  *)
(* key equals `key` ignoring case; 0 stands for end().                     *)
(***************************************************************************)
FindTargetDiffByKey(targetKeyValueDiffs, key) ==
    LET hits == {i \in 1..Len(targetKeyValueDiffs) :
                    iequals(targetKeyValueDiffs[i].key, key)}
    IN  IF hits = {} THEN 0 ELSE CHOOSE i \in hits : \A j \in hits : i <= j
\* The conflict test comparing the two values only, whatever the kinds.
KeyValueDiffHasConflictsByValueOnly(sourceKeyValueDiff, targetKeyValueDiff) ==
    sourceKeyValueDiff.value # targetKeyValueDiff.value
\* The conflict test taking a removal by the target as no conflict.
KeyValueDiffHasConflictsOneSided(sourceKeyValueDiff, targetKeyValueDiff) ==
    IF targetKeyValueDiff.type = "KeyValueRemoved"
    THEN FALSE
    ELSE \/ sourceKeyValueDiff.type = "KeyValueRemoved"
         \/ sourceKeyValueDiff.value # targetKeyValueDiff.value

(***************************************************************************)
(* KeyValueDiffHasConflicts: the switch over the target difference's type. *)
(***************************************************************************)
KeyValueDiffHasConflicts(sourceKeyValueDiff, targetKeyValueDiff) ==
    IF targetKeyValueDiff.type = "KeyValueRemoved"
    THEN targetKeyValueDiff.type # sourceKeyValueDiff.type
    ELSE \/ sourceKeyValueDiff.type = "KeyValueRemoved"
         \/ sourceKeyValueDiff.value # targetKeyValueDiff.value

(***************************************************************************)
(* Collaborators whose code is outside the files at hand, modelled from    *)
(* the specification's data model.                                         *)
(***************************************************************************)
\* ComparisonResult::KeyValueDifference::operator==: same key ignoring case,
\* same kind, same value, the value being ignored when the kind is Removed.
KeyValueDifferenceEquals(a, b) ==
    /\ iequals(a.key, b.key)
    /\ a.type = b.type
    /\ (a.type = "KeyValueRemoved" \/ a.value = b.value)

\* MergeOperationBase::createActionForKeyValueDiff: the action of the kind
\* matching the difference.
createActionForKeyValueDiff(difference, targetEntity) ==
    CASE difference.type = "KeyValueAdded" ->
            AddEntityKeyValueAction(targetEntity, difference.key, difference.value)
      [] difference.type = "KeyValueRemoved" ->
            RemoveEntityKeyValueAction(targetEntity, difference.key)
      [] difference.type = "KeyValueChanged" ->
            ChangeEntityKeyValueAction(targetEntity, difference.key, difference.value)

\* MergeOperationBase::addActionForKeyValueDiff: the actions it appends.
addActionForKeyValueDiff(difference, targetEntity) ==
    <<createActionForKeyValueDiff(difference, targetEntity)>>

\* NodeUtils::CollectPrimitiveFingerprints: fingerprint -> child node of the
\* entity node, read from the scene the node lives in.
CollectPrimitiveFingerprints(entityNode, scene) ==
    IF entityNode.name \in DOMAIN scene
    THEN [fp \in scene[entityNode.name] |->
             PrimitiveNode(entityNode.scene, entityNode.name, fp)]
    ELSE [fp \in {} |-> NullNode]

\* MergeOperationBase::addActionsForPrimitiveDiff: the child difference
\* applied to the target entity as it is; the actions it appends.  An added
\* primitive becomes AddChildAction(sourceChildNode, targetParentEntity), a
\* removed one RemoveChildAction(targetChildNode) on the entity's own child
\* of that fingerprint, the empty node if the entity has no such child.
addActionsForPrimitiveDiff(difference, targetEntity, scene) ==
    IF difference.type = "PrimitiveAdded"
    THEN <<AddChildAction(difference.node, targetEntity)>>
    ELSE LET children == CollectPrimitiveFingerprints(targetEntity, scene)
         IN  <<RemoveChildAction(IF difference.fingerprint \in DOMAIN children
                                 THEN children[difference.fingerprint]
                                 ELSE NullNode)>>

(***************************************************************************)
(* What a step of the reconciliation leaves behind: the actions it added,  *)
(* or the exception it threw, or the abort of a failed assert().           *)
(***************************************************************************)
Added(actions) == [status |-> "ok", exception |-> NoException, actions |-> actions]
Thrown(what, entity) ==
    [status |-> "thrown", exception |-> [what |-> what, entity |-> entity],
     actions |-> <<>>]
Aborted == [status |-> "aborted", exception |-> NoException, actions |-> <<>>]
\* The children loop adding every added primitive, present in the target or not.
ModificationPrimitiveActionsAddAlways(primitiveDiff, targetChildren, targetNode) ==
    LET primitivePresentInTargetMap == primitiveDiff.fingerprint \in DOMAIN targetChildren
    IN  IF primitiveDiff.type = "PrimitiveAdded"
        THEN <<AddChildAction(primitiveDiff.node, targetNode)>>
        ELSE IF primitivePresentInTargetMap
             THEN <<RemoveChildAction(targetChildren[primitiveDiff.fingerprint])>>
             ELSE <<>>
\* The children loop removing the node the source difference names, in place
\* of the target's child of that fingerprint.
ModificationPrimitiveActionsOnSourceNodes(primitiveDiff, targetChildren, targetNode) ==
    LET primitivePresentInTargetMap == primitiveDiff.fingerprint \in DOMAIN targetChildren
    IN  IF primitiveDiff.type = "PrimitiveAdded"
        THEN IF ~primitivePresentInTargetMap
             THEN <<AddChildAction(primitiveDiff.node, targetNode)>>
             ELSE <<>>
        ELSE IF primitivePresentInTargetMap
             THEN <<RemoveChildAction(primitiveDiff.node)>>
             ELSE <<>>

(***************************************************************************)
(* processEntityModification, the loop over sourceDiff.differingChildren:  *)
(* the actions one primitive difference adds.                              *)
(***************************************************************************)
ModificationPrimitiveActions(primitiveDiff, targetChildren, targetNode) ==
    LET primitivePresentInTargetMap == primitiveDiff.fingerprint \in DOMAIN targetChildren
    IN  IF primitiveDiff.type = "PrimitiveAdded"
        THEN IF ~primitivePresentInTargetMap
             THEN <<AddChildAction(primitiveDiff.node, targetNode)>>
             ELSE <<>>
        ELSE IF primitivePresentInTargetMap
             THEN <<RemoveChildAction(targetChildren[primitiveDiff.fingerprint])>>
             ELSE <<>>
\* The key-value loop without the test for a change the target made as well.
ModificationKeyValueActionsWithoutNopTest(sourceKeyValueDiff, targetDiff) ==
    LET found == FindTargetDiffByKey(targetDiff.differingKeyValues, sourceKeyValueDiff.key)
    IN  IF found = 0
        THEN addActionForKeyValueDiff(sourceKeyValueDiff, targetDiff.sourceNode)
        ELSE LET targetKeyValueDiff == targetDiff.differingKeyValues[found]
             IN  IF ~KeyValueDiffHasConflicts(sourceKeyValueDiff, targetKeyValueDiff)
                 THEN addActionForKeyValueDiff(sourceKeyValueDiff, targetDiff.sourceNode)
                 ELSE <<EntityKeyValueConflictResolutionAction(
                            targetDiff.sourceNode,
                            createActionForKeyValueDiff(sourceKeyValueDiff, targetDiff.sourceNode),
                            createActionForKeyValueDiff(targetKeyValueDiff, targetDiff.sourceNode))>>
\* The key-value pass wrapping every change to a key the target changed too,
\* unless the target made the same change.
ModificationKeyValueActionsWrappingAll(sourceKeyValueDiff, targetDiff) ==
    LET found == FindTargetDiffByKey(targetDiff.differingKeyValues, sourceKeyValueDiff.key)
    IN  IF found = 0
        THEN addActionForKeyValueDiff(sourceKeyValueDiff, targetDiff.sourceNode)
        ELSE LET targetKeyValueDiff == targetDiff.differingKeyValues[found]
             IN  IF KeyValueDifferenceEquals(sourceKeyValueDiff, targetKeyValueDiff)
                 THEN <<>>
                 ELSE <<EntityKeyValueConflictResolutionAction(
                            targetDiff.sourceNode,
                            createActionForKeyValueDiff(sourceKeyValueDiff, targetDiff.sourceNode),
                            createActionForKeyValueDiff(targetKeyValueDiff, targetDiff.sourceNode))>>

(***************************************************************************)
(* processEntityModification, the loop over sourceDiff.differingKeyValues: *)
(* the actions one key-value difference adds.                              *)
(***************************************************************************)
ModificationKeyValueActions(sourceKeyValueDiff, targetDiff) ==
    LET found == FindTargetDiffByKey(targetDiff.differingKeyValues, sourceKeyValueDiff.key)
    IN  IF found = 0
        THEN addActionForKeyValueDiff(sourceKeyValueDiff, targetDiff.sourceNode)
        ELSE LET targetKeyValueDiff == targetDiff.differingKeyValues[found]
             IN  IF KeyValueDifferenceEquals(sourceKeyValueDiff, targetKeyValueDiff)
                 THEN <<>>
                 ELSE IF ~KeyValueDiffHasConflicts(sourceKeyValueDiff, targetKeyValueDiff)
                 THEN addActionForKeyValueDiff(sourceKeyValueDiff, targetDiff.sourceNode)
                 ELSE <<EntityKeyValueConflictResolutionAction(
                            targetDiff.sourceNode,
                            createActionForKeyValueDiff(sourceKeyValueDiff, targetDiff.sourceNode),
                            createActionForKeyValueDiff(targetKeyValueDiff, targetDiff.sourceNode))>>

(***************************************************************************)
(* processEntityModification, both sides modified the entity: the in-depth *)
(* comparison, children first, key values second.                          *)
(***************************************************************************)
ReconcileModifications(sourceDiff, targetDiff, scene) ==
    LET targetChildren == CollectPrimitiveFingerprints(targetDiff.sourceNode, scene)
        children == sourceDiff.differingChildren
        keyValues == sourceDiff.differingKeyValues
    IN  Flatten([i \in 1..Len(children) |->
            ModificationPrimitiveActions(children[i], targetChildren,
                                         targetDiff.sourceNode)])
        \o
        Flatten([i \in 1..Len(keyValues) |->
            ModificationKeyValueActions(keyValues[i], targetDiff)])
\* processEntityModification without the return at line 76: the wrapper for
\* the target's removal is added and the in-depth comparison runs all the same.
processEntityModificationWithoutReturn(sourceDiff, targetDiff, targetRoot, scene) ==
    IF targetDiff.type = "EntityMissingInBase"
    THEN Thrown("logic_error", sourceDiff.entityName)
    ELSE IF targetDiff.type = "EntityMissingInSource"
    THEN Added(<<EntityConflictResolutionAction(
                    targetDiff.sourceNode,
                    AddEntityAction(sourceDiff.sourceNode, targetRoot))>>
               \o ReconcileModifications(sourceDiff, targetDiff, scene))
    ELSE Added(ReconcileModifications(sourceDiff, targetDiff, scene))

(***************************************************************************)
(* processEntityModification(sourceDiff, targetDiff).                      *)
(***************************************************************************)
processEntityModification(sourceDiff, targetDiff, targetRoot, scene) ==
    IF targetDiff.type = "EntityMissingInBase"
    THEN Thrown("logic_error", sourceDiff.entityName)
    ELSE IF targetDiff.type = "EntityMissingInSource"
    THEN Added(<<EntityConflictResolutionAction(
                    targetDiff.sourceNode,
                    AddEntityAction(sourceDiff.sourceNode, targetRoot))>>)
    ELSE Added(ReconcileModifications(sourceDiff, targetDiff, scene))
\* The dictionaries keeping the first difference of a name instead of the last.
DifferencesByNameKeepingFirst(diffs) ==
    [n \in {diffs[i].entityName : i \in 1..Len(diffs)} |->
        diffs[CHOOSE i \in 1..Len(diffs) :
                /\ diffs[i].entityName = n
                /\ \A j \in 1..(i - 1) : diffs[j].entityName # n]]

(***************************************************************************)
(* processEntityDifferences: the dictionaries by entity name.  A later     *)
(* difference of the same name overwrites the earlier one.                 *)
(***************************************************************************)
DifferencesByName(diffs) ==
    [n \in {diffs[i].entityName : i \in 1..Len(diffs)} |->
        diffs[CHOOSE i \in 1..Len(diffs) :
                /\ diffs[i].entityName = n
                /\ \A j \in (i + 1)..Len(diffs) : diffs[j].entityName # n]]

\* _targetEntities: name -> entity node, for every entity below the target root.
TargetEntities(targetRoot, scene) ==
    [n \in DOMAIN scene |-> EntityNode(targetRoot.scene, n)]
\* A lookup that never finds the entity.
findTargetEntityByNameInNoIndex(targetEntities, name) == NullNode

\* findTargetEntityByName: the node, or the empty INodePtr.
findTargetEntityByName(targetEntities, name) ==
    IF name \in DOMAIN targetEntities THEN targetEntities[name] ELSE NullNode
\* The names of a dictionary in the order the loop over it visits them, the
\* container visiting names in the order `order`.
IterationOrder(dictionary, order) ==
    Flatten([i \in 1..Len(order) |->
                IF order[i] \in DOMAIN dictionary THEN <<order[i]>> ELSE <<>>])
\* The source-only branch with the loop over differingChildren left out.
AcceptSourceDifferenceKeyValuesOnly(sourceDiff, targetEntities, targetRoot, scene, assertsEnabled) ==
    LET entity == findTargetEntityByName(targetEntities, sourceDiff.entityName)
    IN  CASE sourceDiff.type = "EntityMissingInSource" ->
                IF assertsEnabled /\ entity = NullNode
                THEN Aborted
                ELSE Added(<<RemoveEntityAction(entity)>>)
          [] sourceDiff.type = "EntityMissingInBase" ->
                Added(<<AddEntityAction(sourceDiff.sourceNode, targetRoot)>>)
          [] sourceDiff.type = "EntityPresentButDifferent" ->
                IF assertsEnabled /\ entity = NullNode
                THEN Aborted
                ELSE Added(
                        Flatten([i \in 1..Len(sourceDiff.differingKeyValues) |->
                            addActionForKeyValueDiff(sourceDiff.differingKeyValues[i], entity)]))
\* The source-only branch running the loop over differingChildren before the
\* loop over differingKeyValues.
AcceptSourceDifferenceChildrenFirst(sourceDiff, targetEntities, targetRoot, scene, assertsEnabled) ==
    LET entity == findTargetEntityByName(targetEntities, sourceDiff.entityName)
    IN  CASE sourceDiff.type = "EntityMissingInSource" ->
                IF assertsEnabled /\ entity = NullNode
                THEN Aborted
                ELSE Added(<<RemoveEntityAction(entity)>>)
          [] sourceDiff.type = "EntityMissingInBase" ->
                Added(<<AddEntityAction(sourceDiff.sourceNode, targetRoot)>>)
          [] sourceDiff.type = "EntityPresentButDifferent" ->
                IF assertsEnabled /\ entity = NullNode
                THEN Aborted
                ELSE Added(
                        Flatten([i \in 1..Len(sourceDiff.differingChildren) |->
                            addActionsForPrimitiveDiff(sourceDiff.differingChildren[i], entity, scene)])
                        \o
                        Flatten([i \in 1..Len(sourceDiff.differingKeyValues) |->
                            addActionForKeyValueDiff(sourceDiff.differingKeyValues[i], entity)]))

(***************************************************************************)
(* processEntityDifferences, loop body, no target difference of that name: *)
(* the source difference is accepted as it is.  assertsEnabled tells       *)
(* whether the build keeps assert() (a debug build) or drops it (NDEBUG).  *)
(***************************************************************************)
AcceptSourceDifference(sourceDiff, targetEntities, targetRoot, scene, assertsEnabled) ==
    LET entity == findTargetEntityByName(targetEntities, sourceDiff.entityName)
    IN  CASE sourceDiff.type = "EntityMissingInSource" ->
                IF assertsEnabled /\ entity = NullNode
                THEN Aborted
                ELSE Added(<<RemoveEntityAction(entity)>>)
          [] sourceDiff.type = "EntityMissingInBase" ->
                Added(<<AddEntityAction(sourceDiff.sourceNode, targetRoot)>>)
          [] sourceDiff.type = "EntityPresentButDifferent" ->
                IF assertsEnabled /\ entity = NullNode
                THEN Aborted
                ELSE Added(
                        Flatten([i \in 1..Len(sourceDiff.differingKeyValues) |->
                            addActionForKeyValueDiff(sourceDiff.differingKeyValues[i], entity)])
                        \o
                        Flatten([i \in 1..Len(sourceDiff.differingChildren) |->
                            addActionsForPrimitiveDiff(sourceDiff.differingChildren[i], entity, scene)]))
\* case EntityMissingInBase with the guard checking a removal only: a target
\* modification of the added entity falls through to the fingerprints.
ReconcileAddedEntityRemovalOnly(sourceDiff, targetDiff, targetRoot) ==
    IF targetDiff.type = "EntityMissingInSource"
    THEN Thrown("logic_error", sourceDiff.entityName)
    ELSE IF sourceDiff.sourceFingerprint # targetDiff.sourceFingerprint
         THEN Added(<<AddEntityAction(sourceDiff.sourceNode, targetRoot)>>)
         ELSE Added(<<>>)
\* case EntityMissingInBase without the comparison of the fingerprints: the
\* source's entity is added whenever the target added one of that name.
ReconcileAddedEntityAlwaysAdd(sourceDiff, targetDiff, targetRoot) ==
    IF targetDiff.type \in {"EntityMissingInSource", "EntityPresentButDifferent"}
    THEN Thrown("logic_error", sourceDiff.entityName)
    ELSE Added(<<AddEntityAction(sourceDiff.sourceNode, targetRoot)>>)
\* case EntityMissingInBase with the re-add of a differing entity handed to
\* the user as a conflict.
ReconcileAddedEntityAsConflict(sourceDiff, targetDiff, targetRoot) ==
    IF targetDiff.type # "EntityMissingInBase"
    THEN Thrown("logic_error", sourceDiff.entityName)
    ELSE IF sourceDiff.sourceFingerprint # targetDiff.sourceFingerprint
         THEN Added(<<EntityConflictResolutionAction(
                        targetDiff.sourceNode,
                        AddEntityAction(sourceDiff.sourceNode, targetRoot))>>)
         ELSE Added(<<>>)

(***************************************************************************)
(* processEntityDifferences, loop body, both sides have a difference of    *)
(* that name: the switch over the source difference's type.                *)
(***************************************************************************)
\* case EntityMissingInBase: the entity was added to the source.
ReconcileAddedEntity(sourceDiff, targetDiff, targetRoot) ==
    IF targetDiff.type \in {"EntityMissingInSource", "EntityPresentButDifferent"}
    THEN Thrown("logic_error", sourceDiff.entityName)
    ELSE IF sourceDiff.sourceFingerprint # targetDiff.sourceFingerprint
         THEN Added(<<AddEntityAction(sourceDiff.sourceNode, targetRoot)>>)
         ELSE Added(<<>>)
\* case EntityMissingInSource with the removal accepted as it is when the
\* target modified the entity: no conflict wrapper around it.
ReconcileRemovedEntityUnwrapped(sourceDiff, targetDiff) ==
    IF targetDiff.type = "EntityMissingInBase"
    THEN Thrown("logic_error", sourceDiff.entityName)
    ELSE IF targetDiff.type = "EntityMissingInSource"
         THEN Added(<<>>)
         ELSE Added(<<RemoveEntityAction(targetDiff.sourceNode)>>)
\* case EntityMissingInSource with the wrapper built on the source
\* difference's node.
ReconcileRemovedEntityOnSourceNode(sourceDiff, targetDiff) ==
    IF targetDiff.type = "EntityMissingInBase"
    THEN Thrown("logic_error", sourceDiff.entityName)
    ELSE IF targetDiff.type = "EntityMissingInSource"
         THEN Added(<<>>)
         ELSE Added(<<EntityConflictResolutionAction(
                        sourceDiff.sourceNode,
                        RemoveEntityAction(sourceDiff.sourceNode))>>)

\* case EntityMissingInSource: the entity was removed in the source.
ReconcileRemovedEntity(sourceDiff, targetDiff) ==
    IF targetDiff.type = "EntityMissingInBase"
    THEN Thrown("logic_error", sourceDiff.entityName)
    ELSE IF targetDiff.type = "EntityMissingInSource"
         THEN Added(<<>>)
         ELSE Added(<<EntityConflictResolutionAction(
                        targetDiff.sourceNode,
                        RemoveEntityAction(targetDiff.sourceNode))>>)

ReconcileDifferences(sourceDiff, targetDiff, targetRoot, scene) ==
    CASE sourceDiff.type = "EntityMissingInBase" ->
            ReconcileAddedEntity(sourceDiff, targetDiff, targetRoot)
      [] sourceDiff.type = "EntityMissingInSource" ->
            ReconcileRemovedEntity(sourceDiff, targetDiff)
      [] sourceDiff.type = "EntityPresentButDifferent" ->
            processEntityModification(sourceDiff, targetDiff, targetRoot, scene)

\* One iteration of the loop over _sourceDifferences.
ProcessSourceDifference(name, sourceDifferences, targetDifferences, targetEntities, targetRoot, scene, assertsEnabled) ==
    IF name \notin DOMAIN targetDifferences
    THEN AcceptSourceDifference(sourceDifferences[name], targetEntities, targetRoot,
                                scene, assertsEnabled)
    ELSE ReconcileDifferences(sourceDifferences[name], targetDifferences[name],
                              targetRoot, scene)

(***************************************************************************)
(* processEntityDifferences: the loop over _sourceDifferences from the     *)
(* i-th name on, `actions` being the actions added so far.  An exception   *)
(* or an abort ends the loop; `visited` counts the iterations entered.     *)
(***************************************************************************)
RECURSIVE EntityLoop(_, _, _, _, _, _, _, _, _)
EntityLoop(order, i, actions, sourceDifferences, targetDifferences, targetEntities, targetRoot, scene, assertsEnabled) ==
    IF i > Len(order)
    THEN [status |-> "ok", exception |-> NoException, actions |-> actions,
          visited |-> Len(order)]
    ELSE LET step == ProcessSourceDifference(order[i], sourceDifferences,
                        targetDifferences, targetEntities, targetRoot, scene,
                        assertsEnabled)
         IN  IF step.status # "ok"
             THEN [status |-> step.status, exception |-> step.exception,
                   actions |-> actions, visited |-> i]
             ELSE EntityLoop(order, i + 1, actions \o step.actions, sourceDifferences,
                             targetDifferences, targetEntities, targetRoot, scene,
                             assertsEnabled)
\* processEntityDifferences visiting the target's differences as well: a
\* target difference without a source difference is accepted like a source one.
processEntityDifferencesOfBothSides(sourceDiffs, targetDiffs, targetRoot, scene, assertsEnabled, order) ==
    LET sourceDifferences == DifferencesByName(targetDiffs \o sourceDiffs)
        targetDifferences == DifferencesByName(targetDiffs)
        sourceNames == {sourceDiffs[i].entityName : i \in 1..Len(sourceDiffs)}
        targetEntities == TargetEntities(targetRoot, scene)
    IN  EntityLoop(IterationOrder(sourceDifferences, order), 1, <<>>, sourceDifferences,
                   [n \in DOMAIN targetDifferences \cap sourceNames |-> targetDifferences[n]],
                   targetEntities, targetRoot, scene, assertsEnabled)
\* The names of a list of differences in the order the list has them.
NamesInListOrder(diffs) ==
    Flatten([i \in 1..Len(diffs) |->
                IF \E j \in 1..(i - 1) : diffs[j].entityName = diffs[i].entityName
                THEN <<>> ELSE <<diffs[i].entityName>>])
\* processEntityDifferences looping over the list of the source's differences
\* instead of the dictionary.
processEntityDifferencesInListOrder(sourceDiffs, targetDiffs, targetRoot, scene, assertsEnabled, order) ==
    LET sourceDifferences == DifferencesByName(sourceDiffs)
        targetDifferences == DifferencesByName(targetDiffs)
        targetEntities == TargetEntities(targetRoot, scene)
    IN  EntityLoop(NamesInListOrder(sourceDiffs), 1, <<>>, sourceDifferences,
                   targetDifferences, targetEntities, targetRoot, scene, assertsEnabled)

processEntityDifferences(sourceDiffs, targetDiffs, targetRoot, scene, assertsEnabled, order) ==
    LET sourceDifferences == DifferencesByName(sourceDiffs)
        targetDifferences == DifferencesByName(targetDiffs)
        targetEntities == TargetEntities(targetRoot, scene)
    IN  EntityLoop(IterationOrder(sourceDifferences, order), 1, <<>>, sourceDifferences,
                   targetDifferences, targetEntities, targetRoot, scene, assertsEnabled)

(***************************************************************************)
(* The operation object once processEntityDifferences has returned: the    *)
(* three roots, the action list, and the temporary dictionaries, cleared.  *)
(***************************************************************************)
EmptyDictionary == [n \in {} |-> NullNode]

MergeOperation(baseRoot, sourceRoot, targetRoot, actions) ==
    [_baseRoot |-> baseRoot, _sourceRoot |-> sourceRoot, _targetRoot |-> targetRoot,
     _actions |-> actions,
     _sourceDifferences |-> EmptyDictionary, _targetDifferences |-> EmptyDictionary,
     _targetEntities |-> EmptyDictionary]
\* A guard that never fires: the check of the base roots left out.
BaseRootsNeverDiffer(toSource, toTarget) == FALSE

\* The guard of CreateFromComparisonResults.
BaseRootsDiffer(toSource, toTarget) == toSource.baseRoot # toTarget.baseRoot

(***************************************************************************)
(* CreateFromComparisonResults: what the caller gets.  An exception thrown *)
(* by processEntityDifferences destroys the operation under construction.  *)
(***************************************************************************)
CreateFromComparisonResults(toSource, toTarget, scene, assertsEnabled, order) ==
    IF BaseRootsDiffer(toSource, toTarget)
    THEN [status |-> "thrown",
          exception |-> [what |-> "runtime_error", entity |-> ""],
          operation |-> NoOperation, visited |-> 0]
    ELSE LET run == processEntityDifferences(toSource.differingEntities,
                        toTarget.differingEntities, toTarget.sourceRoot, scene,
                        assertsEnabled, order)
         IN  [status |-> run.status, exception |-> run.exception,
              operation |-> IF run.status = "ok"
                            THEN MergeOperation(toSource.baseRoot, toSource.sourceRoot,
                                                toTarget.sourceRoot, run.actions)
                            ELSE NoOperation,
              visited |-> run.visited]

(***************************************************************************)
(* The comparison results the merge is run on.  Each one is what a         *)
(* comparison of the base with one scene can report: a key occurs once     *)
(* among an entity's key-value differences (ignoring case), a fingerprint  *)
(* once among its child differences, and the target's differences agree    *)
(* with the target scene they were computed from.  The two results need    *)
(* not agree with each other: they may stem from different bases.          *)
(***************************************************************************)
KeyValueDifference(key, value, type) == [key |-> key, value |-> value, type |-> type]
KeyValueDifferences ==
    {KeyValueDifference(k, v, t) : k \in Keys, v \in Values, t \in KeyValueTypes}

\* A removed primitive is known by its base node, an added one by its node in
\* the compared scene.
PrimitiveDifference(scene, name, fp, type) ==
    [fingerprint |-> fp, type |-> type,
     node |-> PrimitiveNode(IF type = "PrimitiveAdded" THEN scene ELSE "base", name, fp)]

\* A removed entity has no node in the compared scene.
EntityDifference(scene, name, type, fingerprint, keyValues, children) ==
    [entityName |-> name, type |-> type,
     sourceNode |-> IF type = "EntityMissingInSource" THEN NullNode
                    ELSE EntityNode(scene, name),
     sourceFingerprint |-> fingerprint,
     differingKeyValues |-> keyValues, differingChildren |-> children]

ComparisonResult(base, scene, differingEntities) ==
    [baseRoot |-> RootNode(base), sourceRoot |-> RootNode(scene),
     differingEntities |-> differingEntities]

\* Lists of n key-value differences with pairwise different keys.
RECURSIVE KeyValueLists(_)
KeyValueLists(n) ==
    IF n = 0 THEN {<<>>}
    ELSE {Append(p[1], p[2]) :
            p \in {q \in KeyValueLists(n - 1) \X KeyValueDifferences :
                     \A i \in 1..Len(q[1]) : ~iequals(q[1][i].key, q[2].key)}}

\* Lists of n child differences of entity `name` with pairwise different
\* fingerprints, drawn from `differences`.
RECURSIVE PrimitiveLists(_, _)
PrimitiveLists(n, differences) ==
    IF n = 0 THEN {<<>>}
    ELSE {Append(p[1], p[2]) :
            p \in {q \in PrimitiveLists(n - 1, differences) \X differences :
                     \A i \in 1..Len(q[1]) : q[1][i].fingerprint # q[2].fingerprint}}

\* Child differences a comparison with any scene can report.
AnyPrimitiveDifferences(scene, name) ==
    {PrimitiveDifference(scene, name, fp, t) :
        fp \in PrimitiveFingerprints, t \in PrimitiveTypes}
\* Child differences a comparison with a scene can report whose entity has the
\* children `present`: what was added is there, what was removed is not.
PrimitiveDifferencesOf(scene, name, present) ==
    {PrimitiveDifference(scene, name, fp,
        IF fp \in present THEN "PrimitiveAdded" ELSE "PrimitiveRemoved") :
        fp \in PrimitiveFingerprints}

\* The scenes with entities among `names`, each with children from `childSets`.
Scenes(names, childSets) == UNION {[present -> childSets] : present \in SUBSET names}

\* A list of target differences agrees with the target scene: an added or
\* modified entity is in the scene, a removed one is not.
AgreesWithScene(diffs, scene) ==
    \A i \in 1..Len(diffs) :
        (diffs[i].type = "EntityMissingInSource") = (diffs[i].entityName \notin DOMAIN scene)

\* Entity differences with little inside: a modification changes key "k" to
\* `value` and, when `children` says so, adds primitive "p".
ShallowDifferences(scene, value, children) ==
    UNION {
        {EntityDifference(scene, n, "EntityMissingInBase", f, <<>>, <<>>) :
            f \in EntityFingerprints}
        \cup {EntityDifference(scene, n, "EntityMissingInSource", "", <<>>, <<>>),
              EntityDifference(scene, n, "EntityPresentButDifferent", "f1",
                  <<KeyValueDifference("k", value, "KeyValueChanged")>>,
                  IF children
                  THEN <<PrimitiveDifference(scene, n, "p", "PrimitiveAdded")>>
                  ELSE <<>>)}
        : n \in Names}

FirstName == "e1"

\* The modification of the first entity with the given nested differences.
Modification(scene, keyValues, children) ==
    EntityDifference(scene, FirstName, "EntityPresentButDifferent", "f1",
                     keyValues, children)

TypeOK ==
    /\ pc \in {"ready", "returned", "thrown", "aborted"}
    /\ visited \in 0..Cardinality(Names)
    /\ (pc = "returned") = (operation # NoOperation)
    /\ (pc = "thrown") = (exception # NoException)

(***************************************************************************)
(* Initial states: the call has not been made.                             *)
(***************************************************************************)
\* No ContinuousBuffer has been constructed.
NoBuffer ==
    /\ _bufferSize = 0
    /\ _slots = <<>>
    /\ _emptySlots = <<>>
    /\ allocations = {}
    /\ bufferStatus = "none"
    /\ calls = 0

\* No call of KeyValueDiffHasConflicts on its own.
NoClassifierCall ==
    /\ sourceArgument = KeyValueDifference("k", "1", "KeyValueRemoved")
    /\ targetArgument = KeyValueDifference("k", "1", "KeyValueRemoved")
    /\ hasConflicts = <<>>

Ready(toSource, toTarget, scene) ==
    /\ baseToSource = toSource
    /\ baseToTarget = toTarget
    /\ targetScene = scene
    /\ operation = NoOperation
    /\ exception = NoException
    /\ visited = 0
    /\ pc = "ready"
    /\ NoBuffer
    /\ NoClassifierCall

\* Two entity names, up to MaxDiffs entity differences in all (a name may be
\* listed more than once), with or without a common base.
InitEntities ==
    \E a \in 0..MaxDiffs : \E b \in 0..(MaxDiffs - a) :
    \E sourceDiffs \in [1..a -> ShallowDifferences("source", "2", TRUE)] :
    \E targetDiffs \in [1..b -> ShallowDifferences("target", "1", FALSE)] :
    \E scene \in Scenes(Names, {{}, {"p"}}) :
    \E base \in {"base", "base2"} :
        /\ AgreesWithScene(targetDiffs, scene)
        /\ Ready(ComparisonResult("base", "source", sourceDiffs),
                 ComparisonResult(base, "target", targetDiffs), scene)

\* One entity the source modified, with up to MaxNested key-value and child
\* differences on the two sides together; the target left it alone, added,
\* removed or modified it.
InitNested ==
    \E a \in 0..MaxNested : \E b \in 0..(MaxNested - a) : \E c \in 0..(MaxNested - a - b) :
    \E sourceKeyValues \in KeyValueLists(a) :
    \E sourceChildren \in PrimitiveLists(c, AnyPrimitiveDifferences("source", FirstName)) :
    \E targetDiffs \in
            {<<Modification("target", kvs, <<>>)>> : kvs \in KeyValueLists(b)}
            \cup (IF b = 0
                  THEN {<<>>,
                        <<EntityDifference("target", FirstName, "EntityMissingInSource",
                                           "", <<>>, <<>>)>>}
                       \cup {<<EntityDifference("target", FirstName, "EntityMissingInBase",
                                                f, <<>>, <<>>)>> : f \in EntityFingerprints}
                  ELSE {}) :
    \E scene \in Scenes({FirstName}, SUBSET PrimitiveFingerprints) :
        /\ AgreesWithScene(targetDiffs, scene)
        /\ Ready(ComparisonResult("base", "source",
                    <<Modification("source", sourceKeyValues, sourceChildren)>>),
                 ComparisonResult("base", "target", targetDiffs), scene)

\* The same comparison result base <-> target passed for both arguments: any
\* list of up to MaxDiffs entity differences, or one modified entity with up to
\* MaxNested nested differences that agree with the entity's children.
InitRoundTrip ==
    \/ \E a \in 0..MaxDiffs :
       \E diffs \in [1..a -> ShallowDifferences("target", "1", FALSE)] :
       \E scene \in Scenes(Names, {{}, {"p"}}) :
            /\ AgreesWithScene(diffs, scene)
            /\ Ready(ComparisonResult("base", "target", diffs),
                     ComparisonResult("base", "target", diffs), scene)
    \/ \E a \in 0..MaxNested : \E c \in 0..(MaxNested - a) :
       \E present \in SUBSET PrimitiveFingerprints :
       \E keyValues \in KeyValueLists(a) :
       \E children \in PrimitiveLists(c, PrimitiveDifferencesOf("target", FirstName, present)) :
            LET result == ComparisonResult("base", "target",
                              <<Modification("target", keyValues, children)>>)
            IN  Ready(result, result, [n \in {FirstName} |-> present])

Init == InitEntities \/ InitNested \/ InitRoundTrip
\* The call with every RemoveEntityAction it adds taking effect at once: the
\* entity leaves the target scene during the pass.
CreateActivatingRemovals ==
    /\ pc = "ready"
    /\ \E assertsEnabled \in BOOLEAN : \E order \in IterationOrders :
        LET result == CreateFromComparisonResults(baseToSource, baseToTarget,
                                                  targetScene, assertsEnabled, order)
            actions == IF result.status = "ok" THEN result.operation._actions ELSE <<>>
            removed == {actions[i].node.name :
                            i \in {j \in 1..Len(actions) : actions[j].type = "RemoveEntity"}}
        IN  /\ operation' = result.operation
            /\ exception' = result.exception
            /\ visited' = result.visited
            /\ pc' = IF result.status = "ok" THEN "returned" ELSE result.status
            /\ targetScene' = [n \in DOMAIN targetScene \ removed |-> targetScene[n]]
    /\ UNCHANGED <<baseToSource, baseToTarget, bufferVars, classifierVars>>

(***************************************************************************)
(* Actions.                                                                *)
(***************************************************************************)
\* The caller runs CreateFromComparisonResults(baseToSource, baseToTarget), in
\* a build with or without assert(), the dictionaries visiting their names in
\* one of the orders a container can have.
Create ==
    /\ pc = "ready"
    /\ \E assertsEnabled \in BOOLEAN : \E order \in IterationOrders :
        LET result == CreateFromComparisonResults(baseToSource, baseToTarget,
                                                  targetScene, assertsEnabled, order)
        IN  /\ operation' = result.operation
            /\ exception' = result.exception
            /\ visited' = result.visited
            /\ pc' = IF result.status = "ok" THEN "returned" ELSE result.status
    /\ UNCHANGED <<baseToSource, baseToTarget, targetScene, bufferVars, classifierVars>>

\* setMergeSelectionGroups(enabled): an empty body.
setMergeSelectionGroups ==
    /\ pc = "returned"
    /\ \E enabled \in BOOLEAN : UNCHANGED vars
\* setMergeLayers(enabled) with an effect: disabling drops the action list.
setMergeLayersClearing ==
    /\ pc = "returned"
    /\ \E enabled \in BOOLEAN :
        /\ operation' = IF enabled THEN operation
                        ELSE [operation EXCEPT !._actions = <<>>]
        /\ UNCHANGED <<baseToSource, baseToTarget, targetScene, exception, visited, pc,
                       bufferVars, classifierVars>>

\* setMergeLayers(enabled): an empty body.
setMergeLayers ==
    /\ pc = "returned"
    /\ \E enabled \in BOOLEAN : UNCHANGED vars

Next == Create \/ setMergeSelectionGroups \/ setMergeLayers

Spec == Init /\ [][Next]_vars

(***************************************************************************)
(* Vocabulary of the properties.                                           *)
(***************************************************************************)
SourceDiffs == baseToSource.differingEntities
TargetDiffs == baseToTarget.differingEntities

\* Positions at which a list of entity differences names n.
Listed(diffs, n) == {i \in 1..Len(diffs) : diffs[i].entityName = n}
InSource(n) == Listed(SourceDiffs, n) # {}
InTarget(n) == Listed(TargetDiffs, n) # {}
\* The difference a list holds for n, for a name the list holds once.
SourceDiff(n) == SourceDiffs[CHOOSE i \in Listed(SourceDiffs, n) : TRUE]
TargetDiff(n) == TargetDiffs[CHOOSE i \in Listed(TargetDiffs, n) : TRUE]

\* At most one entity difference per name and comparison result.
UniqueNames ==
    \A n \in Names : /\ Cardinality(Listed(SourceDiffs, n)) <= 1
                     /\ Cardinality(Listed(TargetDiffs, n)) <= 1

SameBase == baseToSource.baseRoot = baseToTarget.baseRoot

IsAdded(d) == d.type = "EntityMissingInBase"
IsRemoved(d) == d.type = "EntityMissingInSource"
IsModified(d) == d.type = "EntityPresentButDifferent"

\* The action list the caller holds (none without an operation).
ActionList == IF operation = NoOperation THEN <<>> ELSE operation._actions

\* The entity an action is about: read off the nodes the action holds.
ActionEntityName(a) ==
    CASE a.type \in {"AddEntity", "RemoveEntity", "RemoveChild", "AddChild"} -> a.node.name
      [] a.type \in KeyValueActionTypes -> a.entity.name
      [] a.type = "EntityConflict" -> a.sourceAction.node.name
      [] a.type = "EntityKeyValueConflict" -> a.conflictingEntity.name

IsAbout(n, a) == ActionEntityName(a) = n
\* The actions about entity n, in the order of the action list.
ActionsOf(n) == SelectSeq(ActionList, LAMBDA a : IsAbout(n, a))

\* The target entity node and the target root, as the target comparison has them.
TargetNode(n) == EntityNode(baseToTarget.sourceRoot.scene, n)
TargetRoot == baseToTarget.sourceRoot

\* Every action names its entity, unless a source-only removal or modification
\* names an entity the target scene does not have.
LookupsSucceed ==
    \A n \in Names :
        (InSource(n) /\ ~InTarget(n) /\ ~IsAdded(SourceDiff(n))) => n \in DOMAIN targetScene
AllActionsNamed == \A i \in 1..Len(ActionList) : ActionEntityName(ActionList[i]) \in Names

(***************************************************************************)
(* Properties.                                                             *)
(***************************************************************************)

\* C1: a call with two comparison results whose base roots are not the same
\* node ends in the precondition error (a runtime_error) before the loop over
\* the source's entity differences is entered, and hands no operation, hence
\* no action list, to the caller.
C1_MismatchedBaseFails ==
    (pc # "ready" /\ ~SameBase) =>
        /\ pc = "thrown"
        /\ exception.what = "runtime_error"
        /\ visited = 0
        /\ operation = NoOperation

\* The call was made on results of different bases, the source listing an
\* entity difference, and has thrown.
C1_Witness ==
    /\ pc = "thrown"
    /\ ~SameBase
    /\ Len(SourceDiffs) > 0
    /\ exception.what = "runtime_error"

\* The pairings of difference kinds that cannot stem from one base.
FatalPairing(s, t) ==
    \/ IsAdded(s) /\ (IsRemoved(t) \/ IsModified(t))
    \/ IsRemoved(s) /\ IsAdded(t)
    \/ IsModified(s) /\ IsAdded(t)
FatalNames ==
    {n \in Names : InSource(n) /\ InTarget(n) /\ FatalPairing(SourceDiff(n), TargetDiff(n))}

\* C2: with comparison results of one base that list each name once, an entity
\* name whose two differences pair as (Added, Removed or Modified), (Removed,
\* Added) or (Modified, Added) makes the call fail: the caller gets no
\* operation (no action list, whatever earlier entities had added), and the
\* exception is a logic_error naming such an entity.  Conversely an exception
\* is thrown for these pairings only.  (A debug build may abort on a failed
\* assert() before it reaches the pairing; it returns nothing either.)
C2_FatalPairingsThrow ==
    (pc # "ready" /\ SameBase /\ UniqueNames) =>
        /\ FatalNames # {} =>
            /\ pc \in {"thrown", "aborted"}
            /\ operation = NoOperation
        /\ pc = "thrown" =>
            /\ exception.what = "logic_error"
            /\ exception.entity \in FatalNames
            /\ operation = NoOperation

\* The first entity was added by the source alone (its action was appended),
\* the second has a fatal pairing, and the call has thrown naming the second.
C2_Witness ==
    /\ pc = "thrown"
    /\ SameBase /\ UniqueNames
    /\ InSource("e1") /\ ~InTarget("e1") /\ IsAdded(SourceDiff("e1"))
    /\ FatalNames = {"e2"}
    /\ exception = [what |-> "logic_error", entity |-> "e2"]
    /\ visited = 2
    /\ operation = NoOperation

\* What a key-value difference leaves of the key: nothing, or a value.
Outcome(d) == IF d.type = "KeyValueRemoved" THEN "<removed>" ELSE d.value
\* The key an action on a key value is about.
ActionKey(a) == IF a.type = "EntityKeyValueConflict" THEN a.sourceAction.key ELSE a.key
IsKeyValueAction(a) == a.type \in KeyValueActionTypes \cup {"EntityKeyValueConflict"}
\* The actions about key `key` (ignoring case) of entity n.
KeyActionsOf(n, key) ==
    SelectSeq(ActionsOf(n), LAMBDA a : IsKeyValueAction(a) /\ iequals(ActionKey(a), key))
IsWrapper(a) == a.type \in ConflictTypes
AllWrappers(actions) ==
    /\ actions # <<>>
    /\ \A i \in 1..Len(actions) : IsWrapper(actions[i])

\* Both sides changed entity n, and differently: one removed what the other
\* modified, or (when addsCount) both added it with different content.
EntityDivergence(n, addsCount) ==
    /\ InSource(n) /\ InTarget(n)
    /\ \/ IsRemoved(SourceDiff(n)) /\ IsModified(TargetDiff(n))
       \/ IsModified(SourceDiff(n)) /\ IsRemoved(TargetDiff(n))
       \/ /\ addsCount
          /\ IsAdded(SourceDiff(n)) /\ IsAdded(TargetDiff(n))
          /\ SourceDiff(n).sourceFingerprint # TargetDiff(n).sourceFingerprint
\* Both sides modified entity n; s and t are their differences on one key.
KeyDivergence(s, t) == iequals(s.key, t.key) /\ Outcome(s) # Outcome(t)
BothModified(n) ==
    InSource(n) /\ InTarget(n) /\ IsModified(SourceDiff(n)) /\ IsModified(TargetDiff(n))

\* Divergence is no error and shows as conflict wrappers only.
DivergenceIsWrapped(addsCount) ==
    (pc # "ready" /\ SameBase /\ UniqueNames) =>
        \A n \in Names :
            /\ EntityDivergence(n, addsCount) =>
                /\ ~(pc = "thrown" /\ exception.entity = n)
                /\ pc = "returned" => AllWrappers(ActionsOf(n))
            /\ BothModified(n) =>
                /\ ~(pc = "thrown" /\ exception.entity = n)
                /\ \A i \in 1..Len(SourceDiff(n).differingKeyValues) :
                   \A j \in 1..Len(TargetDiff(n).differingKeyValues) :
                     LET s == SourceDiff(n).differingKeyValues[i]
                         t == TargetDiff(n).differingKeyValues[j]
                     IN  (pc = "returned" /\ KeyDivergence(s, t)) =>
                            AllWrappers(KeyActionsOf(n, s.key))

\* C3 as stated: whenever both sides changed the same entity, or the same key
\* of an entity both modified, and changed it differently, the call does not
\* fail on it and every action emitted for it is a conflict wrapper; two
\* different additions of one entity name count as such a divergence.
C3_DivergenceAlwaysWrapped == DivergenceIsWrapped(TRUE)

\* C3, amended: the same, except for an entity both sides added with different
\* content (there a plain AddEntityAction of the source's entity is emitted).
C3_DivergenceWrappedExceptAdds == DivergenceIsWrapped(FALSE)

\* The call returned; one entity was removed by the source and modified by the
\* target and all its actions are wrappers, while the source's change of the
\* other entity, which the target left alone, was accepted unwrapped.
C3_Witness ==
    /\ pc = "returned" /\ UniqueNames
    /\ \E n \in Names : \E m \in Names \ {n} :
        /\ EntityDivergence(n, FALSE)
        /\ IsRemoved(SourceDiff(n))
        /\ AllWrappers(ActionsOf(n))
        /\ InSource(m) /\ ~InTarget(m)
        /\ ActionsOf(m) # <<>>
        /\ ~IsWrapper(ActionsOf(m)[1])

\* Entity n has a source difference and no target difference.
SourceOnly(n) == InSource(n) /\ ~InTarget(n)

\* Action a is key-value difference d applied to `entity` as it is.
IsDirectKeyValueAction(a, d, entity) ==
    /\ a.type = CASE d.type = "KeyValueAdded" -> "AddKeyValue"
                  [] d.type = "KeyValueChanged" -> "ChangeKeyValue"
                  [] d.type = "KeyValueRemoved" -> "RemoveKeyValue"
    /\ a.entity = entity
    /\ a.key = d.key
    /\ d.type # "KeyValueRemoved" => a.value = d.value
\* Action a is child difference d applied to `entity` as it is: the added
\* node put under the entity, or the entity's own child of the removed
\* fingerprint taken out.
IsDirectChildAction(a, d, entity) ==
    IF d.type = "PrimitiveAdded"
    THEN a.type = "AddChild" /\ a.node = d.node /\ a.parent = entity
    ELSE a.type = "RemoveChild"
         /\ a.node = PrimitiveNode(entity.scene, entity.name, d.fingerprint)
\* The target's entity n has every child the source's difference for n removes.
RemovedChildrenPresent(n) ==
    \A i \in 1..Len(SourceDiff(n).differingChildren) :
        SourceDiff(n).differingChildren[i].type = "PrimitiveRemoved" =>
            /\ n \in DOMAIN targetScene
            /\ SourceDiff(n).differingChildren[i].fingerprint \in targetScene[n]

\* C4: for an entity name with a source difference and no target difference
\* (the target scene holding the entity, and the children to remove from it,
\* where they are looked up), the actions about it are exactly the directly
\* mapped ones, none of them a wrapper: one RemoveEntityAction on the target's
\* entity for Removed; one AddEntityAction of the source node under the target
\* root for Added; for Modified one key-value action per key-value difference
\* followed by one child action per primitive difference, all on the target's
\* entity: an added node goes under it, a removed fingerprint takes out its
\* own child.
C4_SourceOnlyMappedDirectly ==
    (pc = "returned" /\ UniqueNames) =>
        \A n \in Names : SourceOnly(n) =>
            LET d == SourceDiff(n)
                acts == ActionsOf(n)
                kvs == d.differingKeyValues
                children == d.differingChildren
            IN  /\ IsAdded(d) => acts = <<AddEntityAction(d.sourceNode, TargetRoot)>>
                /\ (IsRemoved(d) /\ n \in DOMAIN targetScene) =>
                        acts = <<RemoveEntityAction(TargetNode(n))>>
                /\ (IsModified(d) /\ n \in DOMAIN targetScene /\ RemovedChildrenPresent(n)) =>
                        /\ Len(acts) = Len(kvs) + Len(children)
                        /\ \A i \in 1..Len(kvs) :
                                IsDirectKeyValueAction(acts[i], kvs[i], TargetNode(n))
                        /\ \A i \in 1..Len(children) :
                                IsDirectChildAction(acts[Len(kvs) + i], children[i],
                                                    TargetNode(n))

\* The call returned; the source alone modified an entity of the target
\* scene, with a key-value difference, an added primitive and a removed
\* primitive the target's entity has; the three actions are the key-value
\* action, the AddChildAction under the target's entity and the
\* RemoveChildAction of the target entity's own child.
C4_Witness ==
    /\ pc = "returned" /\ UniqueNames
    /\ \E n \in Names :
        /\ SourceOnly(n) /\ IsModified(SourceDiff(n))
        /\ n \in DOMAIN targetScene
        /\ Len(SourceDiff(n).differingKeyValues) = 1
        /\ Len(SourceDiff(n).differingChildren) = 2
        /\ SourceDiff(n).differingChildren[1].type = "PrimitiveAdded"
        /\ SourceDiff(n).differingChildren[2].type = "PrimitiveRemoved"
        /\ SourceDiff(n).differingChildren[2].fingerprint \in targetScene[n]
        /\ Len(ActionList) = 3
        /\ ActionList[2] = AddChildAction(SourceDiff(n).differingChildren[1].node,
                                          TargetNode(n))
        /\ ActionList[3] = RemoveChildAction(
                PrimitiveNode(TargetRoot.scene, n,
                              SourceDiff(n).differingChildren[2].fingerprint))
        /\ ActionList[3].node # SourceDiff(n).differingChildren[2].node

\* Action a is the key-value conflict wrapper of entity n around source
\* difference s and target difference t, both applied to the target's entity.
IsKeyValueWrapper(a, n, s, t) ==
    /\ a.type = "EntityKeyValueConflict"
    /\ a.conflictingEntity = TargetNode(n)
    /\ IsDirectKeyValueAction(a.sourceAction, s, TargetNode(n))
    /\ IsDirectKeyValueAction(a.targetAction, t, TargetNode(n))

\* C5: for an entity modified on both sides and a source key-value difference
\* for which the target has a difference on the same key (ignoring case) with
\* an unequal value (a removal counting as no value), the actions about that
\* key are exactly one EntityKeyValueConflictResolutionAction on the target's
\* entity, wrapping the source's and the target's difference as actions on the
\* target's entity; no unwrapped action for the key is emitted.
C5_UnequalValuesWrappedOnce ==
    (pc = "returned" /\ UniqueNames) =>
        \A n \in Names : BothModified(n) =>
            \A i \in 1..Len(SourceDiff(n).differingKeyValues) :
            \A j \in 1..Len(TargetDiff(n).differingKeyValues) :
                LET s == SourceDiff(n).differingKeyValues[i]
                    t == TargetDiff(n).differingKeyValues[j]
                    acts == KeyActionsOf(n, s.key)
                IN  (iequals(s.key, t.key) /\ Outcome(s) # Outcome(t)) =>
                        /\ Len(acts) = 1
                        /\ IsKeyValueWrapper(acts[1], n, s, t)

\* The call returned; both sides modified an entity; the source changed two
\* keys, one of which the target set to another value under a key spelt in
\* another letter case, and the wrapper for that key is in the action list.
C5_Witness ==
    /\ pc = "returned" /\ UniqueNames
    /\ \E n \in Names :
        /\ BothModified(n)
        /\ Len(SourceDiff(n).differingKeyValues) = 2
        /\ \E i \in 1..2 : \E j \in 1..Len(TargetDiff(n).differingKeyValues) :
            LET s == SourceDiff(n).differingKeyValues[i]
                t == TargetDiff(n).differingKeyValues[j]
            IN  /\ s.key # t.key /\ iequals(s.key, t.key)
                /\ s.type # "KeyValueRemoved" /\ t.type # "KeyValueRemoved"
                /\ s.value # t.value
                /\ Len(KeyActionsOf(n, s.key)) = 1
                /\ IsKeyValueWrapper(KeyActionsOf(n, s.key)[1], n, s, t)
        /\ Len(ActionsOf(n)) = 2

\* C6: merging a comparison result with itself (the same differences on both
\* sides, the target scene being the compared scene) returns an operation
\* with an empty action list: no action, no conflict wrapper, no exception.
C6_RoundTripIsEmpty ==
    (pc # "ready" /\ baseToSource = baseToTarget) =>
        /\ pc = "returned"
        /\ operation._actions = <<>>

\* The call returned on a comparison result passed twice that lists a modified
\* entity with a key-value difference, an added and a removed primitive.
C6_Witness ==
    /\ pc = "returned"
    /\ baseToSource = baseToTarget
    /\ \E i \in 1..Len(SourceDiffs) :
        /\ IsModified(SourceDiffs[i])
        /\ SourceDiffs[i].differingKeyValues # <<>>
        /\ \E c \in 1..Len(SourceDiffs[i].differingChildren) :
                SourceDiffs[i].differingChildren[c].type = "PrimitiveAdded"
        /\ \E c \in 1..Len(SourceDiffs[i].differingChildren) :
                SourceDiffs[i].differingChildren[c].type = "PrimitiveRemoved"
    /\ operation._actions = <<>>

\* Both sides added entity n, with the same content fingerprint.
ConvergentAdd(n) ==
    /\ InSource(n) /\ InTarget(n)
    /\ IsAdded(SourceDiff(n)) /\ IsAdded(TargetDiff(n))
    /\ SourceDiff(n).sourceFingerprint = TargetDiff(n).sourceFingerprint

\* C7: for an entity name both sides mark as added with equal content
\* fingerprints the call does not fail and emits no action about that entity.
C7_ConvergentAddEmitsNothing ==
    (pc # "ready" /\ SameBase /\ UniqueNames) =>
        \A n \in Names : ConvergentAdd(n) =>
            /\ ~(pc = "thrown" /\ exception.entity = n)
            /\ pc = "returned" =>
                /\ ActionsOf(n) = <<>>
                /\ \A i \in 1..Len(ActionList) : ActionList[i].type = "AddEntity" =>
                        ActionList[i].node # SourceDiff(n).sourceNode

\* The call returned; both sides added one entity with the same fingerprint,
\* nothing was emitted for it, while the other entity's difference was.
C7_Witness ==
    /\ pc = "returned" /\ UniqueNames
    /\ \E n \in Names :
        /\ ConvergentAdd(n)
        /\ ActionsOf(n) = <<>>
        /\ ActionList # <<>>

\* No AddChildAction is emitted for an added primitive of a modified source
\* entity n whose fingerprint is among the children of the target's entity n;
\* `anyTarget` tells whether this is said of every such entity or only of those
\* the target has a difference for.
ConvergedChildNotAdded(anyTarget) ==
    (pc = "returned" /\ UniqueNames) =>
        \A n \in Names :
            (/\ InSource(n) /\ IsModified(SourceDiff(n))
             /\ anyTarget \/ InTarget(n)
             /\ n \in DOMAIN targetScene) =>
                \A c \in 1..Len(SourceDiff(n).differingChildren) :
                    LET d == SourceDiff(n).differingChildren[c]
                    IN  (d.type = "PrimitiveAdded" /\ d.fingerprint \in targetScene[n]) =>
                            \A i \in 1..Len(ActionList) :
                                ~(ActionList[i].type = "AddChild" /\ ActionList[i].node = d.node)

\* C8 as stated: no AddChildAction for an added primitive whose fingerprint is
\* among the target entity's children, for every source entity marked
\* Modified, whether the target has a difference for that entity or not.
C8_ConvergedChildNeverAdded == ConvergedChildNotAdded(TRUE)

\* C8, amended: the same for every source entity marked Modified for which
\* the target has a difference too.
C8_ConvergedChildNotAddedWhenBothChanged == ConvergedChildNotAdded(FALSE)

\* The call returned; both sides modified an entity; of two primitives the
\* source added, the one the target's entity already has got no
\* AddChildAction and the other one got its AddChildAction.
C8_Witness ==
    /\ pc = "returned" /\ UniqueNames
    /\ \E n \in Names :
        /\ BothModified(n)
        /\ \E c \in 1..Len(SourceDiff(n).differingChildren) :
            LET d == SourceDiff(n).differingChildren[c]
            IN  /\ d.type = "PrimitiveAdded"
                /\ d.fingerprint \in targetScene[n]
                /\ \A i \in 1..Len(ActionList) : ActionList[i].type = "AddChild" =>
                        ActionList[i].node # d.node
        /\ \E c \in 1..Len(SourceDiff(n).differingChildren) :
            LET d == SourceDiff(n).differingChildren[c]
            IN  /\ d.type = "PrimitiveAdded"
                /\ d.fingerprint \notin targetScene[n]
                /\ \E i \in 1..Len(ActionList) :
                        ActionList[i] = AddChildAction(d.node, TargetNode(n))

\* C9: for every entity the source differences mark Removed and the target
\* differences mark Modified, the actions about it are exactly one
\* EntityConflictResolutionAction whose conflicting entity is the target's
\* entity node and whose wrapped action is a RemoveEntityAction on that same
\* node; hence no unwrapped RemoveEntityAction is in the list for it.
C9_RemovedVersusModifiedIsOneConflict ==
    (pc = "returned" /\ UniqueNames) =>
        \A n \in Names :
            (InSource(n) /\ InTarget(n)
             /\ IsRemoved(SourceDiff(n)) /\ IsModified(TargetDiff(n))) =>
                /\ TargetDiff(n).sourceNode = TargetNode(n)
                /\ ActionsOf(n) = <<EntityConflictResolutionAction(
                                        TargetNode(n), RemoveEntityAction(TargetNode(n)))>>
                /\ \A i \in 1..Len(ActionList) :
                        ActionList[i] # RemoveEntityAction(TargetNode(n))

\* The call returned; the source removed an entity whose key value the target
\* changed, and the whole action list is the one conflict on the target's node.
C9_Witness ==
    /\ pc = "returned" /\ UniqueNames
    /\ \E n \in Names :
        /\ InSource(n) /\ InTarget(n)
        /\ IsRemoved(SourceDiff(n)) /\ IsModified(TargetDiff(n))
        /\ TargetDiff(n).differingKeyValues # <<>>
        /\ ActionList = <<EntityConflictResolutionAction(
                              TargetNode(n), RemoveEntityAction(TargetNode(n)))>>

\* C10: for every entity the source differences mark Modified and the target
\* differences mark Removed, the actions about it are exactly one
\* EntityConflictResolutionAction wrapping an AddEntityAction of the source's
\* entity node under the target root; no nested key-value or primitive
\* difference of the source becomes an action of its own, be it on the entity
\* or on the empty node the target's removal leaves.
C10_ModifiedVersusRemovedIsOneConflict ==
    (pc = "returned" /\ UniqueNames) =>
        \A n \in Names :
            (InSource(n) /\ InTarget(n)
             /\ IsModified(SourceDiff(n)) /\ IsRemoved(TargetDiff(n))) =>
                /\ Len(ActionsOf(n)) = 1
                /\ ActionsOf(n)[1].type = "EntityConflict"
                /\ ActionsOf(n)[1].sourceAction =
                        AddEntityAction(SourceDiff(n).sourceNode, TargetRoot)
                /\ SourceDiff(n).sourceNode = EntityNode(baseToSource.sourceRoot.scene, n)
                /\ LookupsSucceed => AllActionsNamed

\* The call returned; the source modified an entity, with a key-value and a
\* primitive difference below it, that the target removed; the action list is
\* the one conflict wrapping the AddEntityAction.
C10_Witness ==
    /\ pc = "returned" /\ UniqueNames
    /\ \E n \in Names :
        /\ InSource(n) /\ InTarget(n)
        /\ IsModified(SourceDiff(n)) /\ IsRemoved(TargetDiff(n))
        /\ SourceDiff(n).differingKeyValues # <<>>
        /\ SourceDiff(n).differingChildren # <<>>
        /\ Len(ActionList) = 1
        /\ ActionList[1].type = "EntityConflict"
        /\ ActionList[1].sourceAction =
                AddEntityAction(SourceDiff(n).sourceNode, TargetRoot)

\* The nodes an action holds, those of the actions it wraps included.
HeldNodes(a) ==
    CASE a.type \in {"AddEntity", "AddChild"} -> {a.node, a.parent}
      [] a.type \in {"RemoveEntity", "RemoveChild"} -> {a.node}
      [] a.type \in KeyValueActionTypes -> {a.entity}
      [] a.type = "EntityConflict" ->
            {a.conflictingEntity, a.sourceAction.node}
      [] a.type = "EntityKeyValueConflict" ->
            {a.conflictingEntity, a.sourceAction.entity, a.targetAction.entity}
RefersTo(a, n) == \E node \in HeldNodes(a) : node.name = n

TargetOnly(n) == InTarget(n) /\ ~InSource(n)
\* The target comparison result without its difference for n.
WithoutTargetDifference(n) ==
    [baseToTarget EXCEPT !.differingEntities =
        SelectSeq(@, LAMBDA d : d.entityName # n)]

\* C11: for every entity name with a target difference and no source
\* difference, no action of the list, plain or wrapper, refers to that entity,
\* and the action list is one the call gives on the same arguments with that
\* target difference taken out.
C11_TargetOnlyNotVisited ==
    (pc = "returned" /\ UniqueNames) =>
        \A n \in Names : TargetOnly(n) =>
            /\ \A i \in 1..Len(ActionList) : ~RefersTo(ActionList[i], n)
            /\ \E order \in IterationOrders :
                LET without == CreateFromComparisonResults(baseToSource,
                                  WithoutTargetDifference(n), targetScene, FALSE, order)
                IN  /\ without.status = "ok"
                    /\ without.operation._actions = ActionList

\* The call returned; the target alone modified one entity under a key, the
\* source has a difference for another entity, and the action list holds
\* actions, all of them about the other entity.
C11_Witness ==
    /\ pc = "returned" /\ UniqueNames
    /\ \E n \in Names :
        /\ TargetOnly(n)
        /\ IsModified(TargetDiff(n))
        /\ TargetDiff(n).differingKeyValues # <<>>
        /\ ActionList # <<>>
        /\ \A i \in 1..Len(ActionList) : ~RefersTo(ActionList[i], n)
        /\ \E m \in Names \ {n} : InSource(m) /\ InTarget(m)

\* C12: no step, the construction of the merge operation included, changes the
\* two comparison results or the target graph (the base and source graphs are
\* present as the nodes the comparison results hold); the pass only builds the
\* operation and its action list.
C12_ConstructionLeavesInputsUnchanged ==
    [][/\ baseToSource' = baseToSource
       /\ baseToTarget' = baseToTarget
       /\ targetScene' = targetScene]_vars

\* The call returned with a RemoveEntityAction for an entity of the target
\* scene, and the entity and its children are still in the scene.
C12_Witness ==
    /\ pc = "returned"
    /\ \E n \in DOMAIN targetScene :
        /\ targetScene[n] # {}
        /\ \E i \in 1..Len(ActionList) : ActionList[i] = RemoveEntityAction(TargetNode(n))

\* An action of the kinds the source-only branch adds that holds the empty
\* node for its target entity.
HoldsNullTarget(a) ==
    \/ a.type = "RemoveEntity" /\ a.node = NullNode
    \/ a.type \in KeyValueActionTypes /\ a.entity = NullNode
    \/ a.type = "AddChild" /\ a.parent = NullNode

\* C13: when a source difference of kind Removed or Modified, for an entity
\* without a target difference, names an entity the target graph does not
\* have, the call fails and leaves no operation and no action list; and no
\* RemoveEntityAction, key-value action or child action of the list holds the
\* empty node as its target entity.
C13_AbsentTargetEntityFails ==
    (pc # "ready" /\ UniqueNames) =>
        /\ ~LookupsSucceed => (pc \in {"thrown", "aborted"} /\ operation = NoOperation)
        /\ \A i \in 1..Len(ActionList) : ~HoldsNullTarget(ActionList[i])

\* The place of n's difference in the list of the source comparison result.
SourcePosition(n) == CHOOSE i \in Listed(SourceDiffs, n) : TRUE
\* Pairs of actions of the list, the first before the second, that are about
\* two different entities.
ActionPairs ==
    {p \in (1..Len(ActionList)) \X (1..Len(ActionList)) :
        /\ p[1] < p[2]
        /\ ActionEntityName(ActionList[p[1]]) \in Names
        /\ ActionEntityName(ActionList[p[2]]) \in Names
        /\ ActionEntityName(ActionList[p[1]]) # ActionEntityName(ActionList[p[2]])}

\* C14 as stated: the actions of two different entities stand in the action
\* list in the order in which the source comparison result lists the two
\* entity differences.
C14_ActionsInListOrder ==
    (pc = "returned" /\ UniqueNames) =>
        \A p \in ActionPairs :
            SourcePosition(ActionEntityName(ActionList[p[1]]))
                < SourcePosition(ActionEntityName(ActionList[p[2]]))

\* The place of name n in an iteration order, and the source comparison
\* result with its list of differences reversed.
Rank(order, n) == CHOOSE i \in 1..Len(order) : order[i] = n
ReversedSource ==
    [baseToSource EXCEPT !.differingEntities = [i \in 1..Len(@) |-> @[Len(@) + 1 - i]]]

\* C14, amended: the actions of two different entities stand in the action
\* list in the order in which the loop over the dictionary _sourceDifferences
\* visits the two names, and the order of the list plays no part: the call
\* gives the same action list on the source's differences listed in reverse.
C14_ActionsInDictionaryOrder ==
    (pc = "returned" /\ UniqueNames) =>
        \E order \in IterationOrders :
            /\ \A p \in ActionPairs :
                    Rank(order, ActionEntityName(ActionList[p[1]]))
                        < Rank(order, ActionEntityName(ActionList[p[2]]))
            /\ LET reversed == CreateFromComparisonResults(ReversedSource, baseToTarget,
                                    targetScene, FALSE, order)
               IN  /\ reversed.status = "ok"
                   /\ reversed.operation._actions = ActionList

\* The call returned; the source comparison result lists two differences,
\* both entities got actions, and the actions of the entity listed second
\* come first.
C14_Witness ==
    /\ pc = "returned" /\ UniqueNames
    /\ ActionPairs # {}
    /\ \E p \in ActionPairs :
        LET n == ActionEntityName(ActionList[p[1]])
            m == ActionEntityName(ActionList[p[2]])
        IN  SourcePosition(m) < SourcePosition(n)

\* C15: setMergeSelectionGroups(b) and setMergeLayers(b), for either boolean
\* and whenever called after the construction, leave the action list and all
\* the rest of the state as they are: every step taken from a state in which
\* the call has returned changes nothing.
C15_SettersHaveNoEffect ==
    [][pc = "returned" =>
        /\ operation' = operation
        /\ pc' = pc
        /\ exception' = exception
        /\ visited' = visited
        /\ baseToSource' = baseToSource
        /\ baseToTarget' = baseToTarget
        /\ targetScene' = targetScene]_vars

\* An operation with a conflict and a plain action in its list, on which the
\* setters can be called.
C15_Witness ==
    /\ pc = "returned"
    /\ ENABLED setMergeSelectionGroups
    /\ ENABLED setMergeLayers
    /\ \E i \in 1..Len(ActionList) : IsWrapper(ActionList[i])
    /\ \E i \in 1..Len(ActionList) : ~IsWrapper(ActionList[i])

(***************************************************************************)
(* render::ContinuousBuffer<ElementType>.                                  *)
(*                                                                         *)
(* The elements stored are left out; of _buffer its size is kept.  A       *)
(* buffer value is the record of the members _bufferSize, _slots and       *)
(* _emptySlots; handles count from 0, so the slot of handle h is           *)
(* _slots[h + 1].                                                          *)
(***************************************************************************)
\* Sizes the client constructs the buffer with.
MaxInitialSize == 3
\* Sizes the client asks allocate for.
MaxChunk == 3
\* The buffer is not grown beyond this size.
MaxBufferSize == 8
\* allocate and deallocate calls the client makes.
MaxCalls == 7

\* static constexpr std::size_t GrowthRate
GrowthRate == 1
\* The size the constructor takes in place of 0.
MinimumInitialSize == 16
SlotInfo(offset, size, occupied) ==
    [Occupied |-> occupied, Offset |-> offset, Size |-> size]

Max(a, b) == IF a >= b THEN a ELSE b
Top(stack) == stack[Len(stack)]
Pop(stack) == SubSeq(stack, 1, Len(stack) - 1)

\* createSlotInfo(offset, size), occupied = false: a new slot at the end of
\* _slots, or the recycled one on top of _emptySlots.
createSlotInfo(buffer, offset, size) ==
    IF buffer._emptySlots = <<>>
    THEN [buffer EXCEPT !._slots = Append(@, SlotInfo(offset, size, FALSE))]
    ELSE [buffer EXCEPT !._slots[Top(buffer._emptySlots) + 1] = SlotInfo(offset, size, FALSE),
                        !._emptySlots = Pop(@)]

\* The constructor.
ContinuousBuffer(initialSize) ==
    LET size == IF initialSize = 0 THEN MinimumInitialSize ELSE initialSize
    IN  createSlotInfo([_bufferSize |-> size, _slots |-> <<>>, _emptySlots |-> <<>>],
                       0, size)

getSize(buffer, handle) == buffer._slots[handle + 1].Size
getOffset(buffer, handle) == buffer._slots[handle + 1].Offset

\* The loops of findLeftFreeSlot and findRightFreeSlot, `hits` being the slot
\* indices that match: the first match ends the loop, the value returned
\* tells whether it is free, and `found` is its index (without a match `found`
\* is not written and not read: no slot's index).
FirstMatch(slots, hits) ==
    IF hits = {}
    THEN [result |-> FALSE, found |-> Len(slots)]
    ELSE LET first == CHOOSE h \in hits : \A g \in hits : h <= g
         IN  [result |-> ~slots[first + 1].Occupied, found |-> first]

findLeftFreeSlot(slots, slotToTouch) ==
    FirstMatch(slots, {slotIndex \in 0..(Len(slots) - 1) :
                        LET candidate == slots[slotIndex + 1]
                        IN  candidate.Offset + candidate.Size = slotToTouch.Offset})

findRightFreeSlot(slots, slotToTouch) ==
    LET offsetToMatch == slotToTouch.Offset + slotToTouch.Size
    IN  FirstMatch(slots, {slotIndex \in 0..(Len(slots) - 1) :
                            slots[slotIndex + 1].Offset = offsetToMatch})

\* deallocate, the merge of the released slot with slotIndexToMerge: the
\* assignments in the order of the code (the two slots may be one and the
\* same), then the push of the merged handle.  `left` tells the left merge,
\* which takes the neighbour's offset as well.
MergeSlots(buffer, handle, slotIndexToMerge, left) ==
    LET s1 == IF left
              THEN [buffer._slots EXCEPT ![handle + 1].Offset =
                                            buffer._slots[slotIndexToMerge + 1].Offset]
              ELSE buffer._slots
        s2 == [s1 EXCEPT ![handle + 1].Size = @ + s1[slotIndexToMerge + 1].Size]
        s3 == [s2 EXCEPT ![slotIndexToMerge + 1].Size = 0]
        s4 == [s3 EXCEPT ![slotIndexToMerge + 1].Occupied = TRUE]
    IN  [buffer EXCEPT !._slots = s4,
                       !._emptySlots = Append(@, slotIndexToMerge)]

\* deallocate(handle): the buffer it leaves.
deallocate(buffer, handle) ==
    LET released == [buffer EXCEPT !._slots[handle + 1].Occupied = FALSE]
        leftSlot == findLeftFreeSlot(released._slots, released._slots[handle + 1])
        afterLeft == IF leftSlot.result
                     THEN MergeSlots(released, handle, leftSlot.found, TRUE)
                     ELSE released
        rightSlot == findRightFreeSlot(afterLeft._slots, afterLeft._slots[handle + 1])
    IN  IF rightSlot.result
        THEN MergeSlots(afterLeft, handle, rightSlot.found, FALSE)
        ELSE afterLeft

\* getNextFreeSlotForSize, the loop over the slots from slotIndex on: the
\* first free slot that is large enough, or else the free slot of the highest
\* offset the loop has kept track of.
RECURSIVE ScanSlots(_, _, _, _, _)
ScanSlots(slots, requiredSize, slotIndex, rightmostFreeSlotIndex, rightmostFreeOffset) ==
    IF slotIndex >= Len(slots)
    THEN [found |-> FALSE, slotIndex |-> rightmostFreeSlotIndex]
    ELSE LET slot == slots[slotIndex + 1]
             higher == slot.Offset > rightmostFreeOffset
         IN  IF slot.Occupied
             THEN ScanSlots(slots, requiredSize, slotIndex + 1,
                            rightmostFreeSlotIndex, rightmostFreeOffset)
             ELSE IF slot.Size < requiredSize
             THEN ScanSlots(slots, requiredSize, slotIndex + 1,
                            IF higher THEN slotIndex ELSE rightmostFreeSlotIndex,
                            IF higher THEN slot.Offset ELSE rightmostFreeOffset)
             ELSE [found |-> TRUE, slotIndex |-> slotIndex]

\* getNextFreeSlotForSize(requiredSize): the handle returned and the buffer
\* left, or the abort of the assert() in a build that keeps it.
getNextFreeSlotForSize(buffer, requiredSize, assertsEnabled) ==
    LET scan == ScanSlots(buffer._slots, requiredSize, 0, 0, 0)
        slotIndex == scan.slotIndex
        slot == buffer._slots[slotIndex + 1]
    IN  IF scan.found
        THEN LET remainingSize == slot.Size - requiredSize
                 taken == [buffer EXCEPT !._slots[slotIndex + 1] =
                                            SlotInfo(slot.Offset, requiredSize, TRUE)]
             IN  [status |-> "ok", handle |-> slotIndex,
                  buffer |-> IF remainingSize > 0
                             THEN createSlotInfo(taken, slot.Offset + requiredSize,
                                                 remainingSize)
                             ELSE taken]
        ELSE LET additionalSize == Max(buffer._bufferSize * GrowthRate, requiredSize)
                 remainingSize == slot.Size + additionalSize - requiredSize
                 grown == [buffer EXCEPT !._bufferSize = @ + additionalSize]
                 taken == [grown EXCEPT !._slots[slotIndex + 1] =
                                            SlotInfo(slot.Offset, requiredSize, TRUE)]
             IN  IF assertsEnabled /\ ~(slot.Size < requiredSize)
                 THEN [status |-> "aborted", handle |-> slotIndex, buffer |-> grown]
                 ELSE [status |-> "ok", handle |-> slotIndex,
                       buffer |-> createSlotInfo(taken, slot.Offset + requiredSize,
                                                 remainingSize)]

\* allocate(requiredSize)
allocate(buffer, requiredSize, assertsEnabled) ==
    getNextFreeSlotForSize(buffer, requiredSize, assertsEnabled)

(***************************************************************************)
(* The state machine of a buffer and its client.                           *)
(***************************************************************************)
TheBuffer == [_bufferSize |-> _bufferSize, _slots |-> _slots, _emptySlots |-> _emptySlots]

\* No merge is under way.
NoMerge ==
    /\ baseToSource = ComparisonResult("base", "source", <<>>)
    /\ baseToTarget = ComparisonResult("base", "target", <<>>)
    /\ targetScene = [n \in {} |-> {}]
    /\ operation = NoOperation
    /\ exception = NoException
    /\ visited = 0
    /\ pc = "none"

BufferInit ==
    /\ NoMerge
    /\ NoClassifierCall
    /\ \E initialSize \in 1..MaxInitialSize :
        LET buffer == ContinuousBuffer(initialSize)
        IN  /\ _bufferSize = buffer._bufferSize
            /\ _slots = buffer._slots
            /\ _emptySlots = buffer._emptySlots
    /\ allocations = {}
    /\ bufferStatus = "ok"
    /\ calls = 0

\* The client calls allocate(requiredSize) and keeps the handle.
Allocate ==
    /\ bufferStatus = "ok"
    /\ calls < MaxCalls
    /\ calls' = calls + 1
    /\ \E requiredSize \in 1..MaxChunk : \E assertsEnabled \in BOOLEAN :
        LET call == allocate(TheBuffer, requiredSize, assertsEnabled)
        IN  /\ call.buffer._bufferSize <= MaxBufferSize
            /\ _bufferSize' = call.buffer._bufferSize
            /\ _slots' = call.buffer._slots
            /\ _emptySlots' = call.buffer._emptySlots
            /\ bufferStatus' = call.status
            /\ allocations' = IF call.status = "ok"
                              THEN allocations \cup {<<call.handle, requiredSize>>}
                              ELSE allocations
    /\ UNCHANGED <<mergeVars, classifierVars>>

\* The client calls deallocate(handle) for one of its allocations.
Deallocate ==
    /\ bufferStatus = "ok"
    /\ calls < MaxCalls
    /\ calls' = calls + 1
    /\ \E allocation \in allocations :
        LET buffer == deallocate(TheBuffer, allocation[1])
        IN  /\ _bufferSize' = buffer._bufferSize
            /\ _slots' = buffer._slots
            /\ _emptySlots' = buffer._emptySlots
            /\ allocations' = allocations \ {allocation}
    /\ UNCHANGED <<bufferStatus, mergeVars, classifierVars>>

BufferNext == Allocate \/ Deallocate

BufferSpec == BufferInit /\ [][BufferNext]_vars

BufferTypeOK ==
    /\ bufferStatus \in {"ok", "aborted"}
    /\ _bufferSize \in 1..MaxBufferSize
    /\ calls \in 0..MaxCalls
    /\ \A i \in 1..Len(_emptySlots) : _emptySlots[i] \in 0..(Len(_slots) - 1)

(***************************************************************************)
(* Properties of the buffer.                                               *)
(***************************************************************************)
\* C16: the chunk size of an allocation is fixed: for every handle the client
\* got from allocate(n) and has not deallocated, getSize(handle) = n, whatever
\* allocate and deallocate calls were made since, growth of the buffer
\* included.
C16_ChunkSizeFixed ==
    bufferStatus = "ok" =>
        \A allocation \in allocations :
            getSize(TheBuffer, allocation[1]) = allocation[2]

(***************************************************************************)
(* The difference classifier on its own: KeyValueDiffHasConflicts called   *)
(* on two key-value differences of the same key (ignoring case).           *)
(***************************************************************************)
ClassifierInit ==
    /\ NoMerge
    /\ NoBuffer
    /\ sourceArgument \in KeyValueDifferences
    /\ targetArgument \in KeyValueDifferences
    /\ iequals(targetArgument.key, sourceArgument.key)
    /\ hasConflicts = <<>>

\* The call KeyValueDiffHasConflicts(sourceArgument, targetArgument).
Classify ==
    /\ hasConflicts = <<>>
    /\ hasConflicts' = <<KeyValueDiffHasConflicts(sourceArgument, targetArgument)>>
    /\ UNCHANGED <<sourceArgument, targetArgument, mergeVars, bufferVars>>

ClassifierNext == Classify

ClassifierSpec == ClassifierInit /\ [][ClassifierNext]_vars

\* keyValueConflict of the specification's difference classifier.
keyValueConflict(sourceDiff, targetDiff) ==
    \/ targetDiff.type = "KeyValueRemoved" /\ sourceDiff.type # "KeyValueRemoved"
    \/ /\ targetDiff.type \in {"KeyValueAdded", "KeyValueChanged"}
       /\ \/ sourceDiff.type = "KeyValueRemoved"
          \/ sourceDiff.value # targetDiff.value

\* C17: for two differences of the same key, whatever their kinds and values,
\* the value returned is true exactly if the target removed the key and the
\* source did not, or the target added or changed it and the source removed
\* it or gave it another value; so it is false for Removed/Removed and for an
\* Added-or-Changed pair of equal values.
C17_ConflictTestAsSpecified ==
    hasConflicts # <<>> =>
        /\ hasConflicts = <<keyValueConflict(sourceArgument, targetArgument)>>
        /\ (sourceArgument.type = "KeyValueRemoved"
            /\ targetArgument.type = "KeyValueRemoved") => hasConflicts = <<FALSE>>
        /\ (sourceArgument.type # "KeyValueRemoved"
            /\ targetArgument.type # "KeyValueRemoved"
            /\ sourceArgument.value = targetArgument.value) => hasConflicts = <<FALSE>>

\* The call was made on an added and a changed value that are equal, under
\* keys that differ in letter case, and returned false.
C17_Witness ==
    /\ hasConflicts = <<FALSE>>
    /\ sourceArgument.type = "KeyValueAdded"
    /\ targetArgument.type = "KeyValueChanged"
    /\ sourceArgument.key # targetArgument.key
    /\ sourceArgument.value = targetArgument.value

\* C18: for every entity both sides mark Added with differing fingerprints,
\* the actions about it are exactly one plain AddEntityAction of the source's
\* entity node under the target root, and no wrapper of the list holds that
\* action.
C18_DivergentAddIsPlainReAdd ==
    (pc = "returned" /\ UniqueNames) =>
        \A n \in Names :
            (InSource(n) /\ InTarget(n)
             /\ IsAdded(SourceDiff(n)) /\ IsAdded(TargetDiff(n))
             /\ SourceDiff(n).sourceFingerprint # TargetDiff(n).sourceFingerprint) =>
                /\ SourceDiff(n).sourceNode = EntityNode(baseToSource.sourceRoot.scene, n)
                /\ ActionsOf(n) = <<AddEntityAction(SourceDiff(n).sourceNode, TargetRoot)>>
                /\ \A i \in 1..Len(ActionList) :
                        IsWrapper(ActionList[i]) => ~RefersTo(ActionList[i], n)

\* The call returned; both sides added an entity with differing fingerprints
\* and the action list is the one AddEntityAction of the source's node.
C18_Witness ==
    /\ pc = "returned" /\ UniqueNames
    /\ \E n \in Names :
        /\ InSource(n) /\ InTarget(n)
        /\ IsAdded(SourceDiff(n)) /\ IsAdded(TargetDiff(n))
        /\ SourceDiff(n).sourceFingerprint # TargetDiff(n).sourceFingerprint
        /\ ActionList = <<AddEntityAction(SourceDiff(n).sourceNode, TargetRoot)>>

\* How often an action stands in the action list.
Occurrences(a) == Cardinality({i \in 1..Len(ActionList) : ActionList[i] = a})
\* The child of the target's entity n that carries fingerprint fp.
TargetChild(n, fp) == PrimitiveNode(baseToTarget.sourceRoot.scene, n, fp)

\* C19: for an entity modified on both sides and every primitive the source
\* removed from it, one RemoveChildAction on the target entity's child of
\* that fingerprint is in the action list if the target's entity has such a
\* child, and none if it has not; and no RemoveChildAction about the entity
\* removes another node than a child of the target's entity (in particular
\* not the node the source difference names).
C19_RemovesTargetChildIfPresent ==
    (pc = "returned" /\ UniqueNames) =>
        \A n \in Names : BothModified(n) =>
            /\ n \in DOMAIN targetScene
            /\ \A c \in 1..Len(SourceDiff(n).differingChildren) :
                LET d == SourceDiff(n).differingChildren[c]
                IN  d.type = "PrimitiveRemoved" =>
                        /\ Occurrences(RemoveChildAction(TargetChild(n, d.fingerprint)))
                                = IF d.fingerprint \in targetScene[n] THEN 1 ELSE 0
                        /\ d.node # TargetChild(n, d.fingerprint)
            /\ \A i \in 1..Len(ActionsOf(n)) :
                ActionsOf(n)[i].type = "RemoveChild" =>
                    \E fp \in targetScene[n] : ActionsOf(n)[i].node = TargetChild(n, fp)

\* The call returned; both sides modified an entity from which the source
\* removed two primitives; the target's entity still has one of them, and the
\* action list is the RemoveChildAction on that child of the target.
C19_Witness ==
    /\ pc = "returned" /\ UniqueNames
    /\ \E n \in Names :
        /\ BothModified(n)
        /\ \E fp \in targetScene[n] : \E gone \in PrimitiveFingerprints \ targetScene[n] :
            /\ \E c \in 1..Len(SourceDiff(n).differingChildren) :
                /\ SourceDiff(n).differingChildren[c].type = "PrimitiveRemoved"
                /\ SourceDiff(n).differingChildren[c].fingerprint = fp
            /\ \E c \in 1..Len(SourceDiff(n).differingChildren) :
                /\ SourceDiff(n).differingChildren[c].type = "PrimitiveRemoved"
                /\ SourceDiff(n).differingChildren[c].fingerprint = gone
            /\ ActionList = <<RemoveChildAction(TargetChild(n, fp))>>

\* The target's key-value differences for entity n whose key equals `key`
\* ignoring case.
TargetMatches(n, key) ==
    {j \in 1..Len(TargetDiff(n).differingKeyValues) :
        iequals(TargetDiff(n).differingKeyValues[j].key, key)}

\* C20: for an entity modified on both sides and a source key-value
\* difference whose key equals no key of the target's key-value differences
\* ignoring case, the actions about that key are exactly one unwrapped action
\* of the kind matching the difference, on the target's entity.  A target
\* difference whose key differs in letter case only is a match: with an
\* unequal value no unwrapped action for the key is emitted.
C20_UnmatchedKeyAcceptedVerbatim ==
    (pc = "returned" /\ UniqueNames) =>
        \A n \in Names : BothModified(n) =>
            \A i \in 1..Len(SourceDiff(n).differingKeyValues) :
                LET s == SourceDiff(n).differingKeyValues[i]
                    acts == KeyActionsOf(n, s.key)
                IN  /\ TargetMatches(n, s.key) = {} =>
                        /\ Len(acts) = 1
                        /\ IsDirectKeyValueAction(acts[1], s, TargetNode(n))
                    /\ \A j \in TargetMatches(n, s.key) :
                        LET t == TargetDiff(n).differingKeyValues[j]
                        IN  (t.key # s.key /\ Outcome(s) # Outcome(t)) =>
                                AllWrappers(acts)

\* The call returned; both sides modified an entity; one key of the source
\* has no counterpart in the target and got its unwrapped action, another is
\* spelt in another letter case by the target, with another value, and got a
\* wrapper.
C20_Witness ==
    /\ pc = "returned" /\ UniqueNames
    /\ \E n \in Names :
        /\ BothModified(n)
        /\ \E i \in 1..Len(SourceDiff(n).differingKeyValues) :
            LET s == SourceDiff(n).differingKeyValues[i]
            IN  /\ TargetMatches(n, s.key) = {}
                /\ Len(KeyActionsOf(n, s.key)) = 1
                /\ IsDirectKeyValueAction(KeyActionsOf(n, s.key)[1], s, TargetNode(n))
        /\ \E i \in 1..Len(SourceDiff(n).differingKeyValues) :
            LET s == SourceDiff(n).differingKeyValues[i]
            IN  \E j \in TargetMatches(n, s.key) :
                    /\ TargetDiff(n).differingKeyValues[j].key # s.key
                    /\ AllWrappers(KeyActionsOf(n, s.key))

\* Two key-value differences are equal: same key ignoring case, same kind,
\* same value, the value being ignored when both are Removed.
SameChange(s, t) ==
    /\ iequals(s.key, t.key)
    /\ s.type = t.type
    /\ s.type = "KeyValueRemoved" \/ s.value = t.value

\* C21: for an entity modified on both sides, a source key-value difference
\* that equals the target's difference for that key leaves no action about
\* that key in the action list, neither plain nor wrapper.
C21_SameChangeEmitsNothing ==
    (pc = "returned" /\ UniqueNames) =>
        \A n \in Names : BothModified(n) =>
            \A i \in 1..Len(SourceDiff(n).differingKeyValues) :
            \A j \in 1..Len(TargetDiff(n).differingKeyValues) :
                LET s == SourceDiff(n).differingKeyValues[i]
                    t == TargetDiff(n).differingKeyValues[j]
                IN  SameChange(s, t) =>
                        /\ KeyActionsOf(n, s.key) = <<>>
                        /\ \A a \in 1..Len(ActionList) :
                            (IsKeyValueAction(ActionList[a])
                             /\ iequals(ActionKey(ActionList[a]), s.key)) =>
                                ~RefersTo(ActionList[a], n)

\* The call returned; both sides modified an entity; both removed a key, spelt
\* in different letter case and with different former values; the action
\* list is empty.
C21_Witness ==
    /\ pc = "returned" /\ UniqueNames
    /\ \E n \in Names :
        /\ BothModified(n)
        /\ \E i \in 1..Len(SourceDiff(n).differingKeyValues) :
           \E j \in 1..Len(TargetDiff(n).differingKeyValues) :
                LET s == SourceDiff(n).differingKeyValues[i]
                    t == TargetDiff(n).differingKeyValues[j]
                IN  /\ SameChange(s, t)
                    /\ s.type = "KeyValueRemoved"
                    /\ s.key # t.key /\ s.value # t.value
        /\ ActionList = <<>>

(***************************************************************************)
(* Comparison results honestly derived from three graphs with one base:    *)
(* the kind of an entity's difference follows from the entity's presence   *)
(* in the base and in the other graph (Added: not in base, in the other;   *)
(* Removed: in base, not in the other; Modified: in both; no difference:   *)
(* in both or in neither).  `base` is the set of the base's entity names;  *)
(* the target graph's entities are those of targetScene.                   *)
(***************************************************************************)
KindFollowsFrom(d, inBase, inOther) ==
    CASE IsAdded(d) -> ~inBase /\ inOther
      [] IsRemoved(d) -> inBase /\ ~inOther
      [] IsModified(d) -> inBase /\ inOther

DerivedFromBase(base) ==
    \A n \in Names :
        /\ InSource(n) => \E inSource \in BOOLEAN :
                            KindFollowsFrom(SourceDiff(n), n \in base, inSource)
        /\ InTarget(n) => KindFollowsFrom(TargetDiff(n), n \in base, n \in DOMAIN targetScene)
        /\ ~InTarget(n) => ((n \in base) = (n \in DOMAIN targetScene))

HonestlyDerived ==
    /\ SameBase
    /\ UniqueNames
    /\ \E base \in SUBSET Names : DerivedFromBase(base)

\* C22: on comparison results honestly derived from three graphs with one
\* base the call returns: it throws no error, no assert() stops it, and every
\* lookup of the target entity for a source difference of kind Removed or
\* Modified without a target difference finds the entity, so that no action
\* holds an empty node in its place.
C22_HonestInputsNeverFail ==
    (pc # "ready" /\ HonestlyDerived) =>
        /\ pc = "returned"
        /\ exception = NoException
        /\ \A n \in Names :
            (InSource(n) /\ ~InTarget(n) /\ ~IsAdded(SourceDiff(n))) =>
                findTargetEntityByName(TargetEntities(TargetRoot, targetScene), n)
                    = TargetNode(n)
        /\ \A i \in 1..Len(ActionList) : ~HoldsNullTarget(ActionList[i])

\* The call returned on honest inputs in which the source removed one entity
\* the target left alone and modified another one the target removed; the
\* first got its RemoveEntityAction on the target's node.
C22_Witness ==
    /\ pc = "returned" /\ HonestlyDerived
    /\ \E n \in Names : \E m \in Names \ {n} :
        /\ InSource(n) /\ ~InTarget(n) /\ IsRemoved(SourceDiff(n))
        /\ InSource(m) /\ InTarget(m)
        /\ IsModified(SourceDiff(m)) /\ IsRemoved(TargetDiff(m))
        /\ \E i \in 1..Len(ActionList) : ActionList[i] = RemoveEntityAction(TargetNode(n))

(***************************************************************************)
(* The call with source and target swapped: baseToTarget takes the place   *)
(* of the source comparison, baseToSource that of the target comparison,   *)
(* and the source graph, a scene the source's differences agree with, that *)
(* of the target graph.                                                    *)
(***************************************************************************)
SourceScenes ==
    {scene \in Scenes(Names, {{}}) : AgreesWithScene(SourceDiffs, scene)}
Swapped(scene, assertsEnabled, order) ==
    CreateFromComparisonResults(baseToTarget, baseToSource, scene, assertsEnabled, order)
SwappedActions(scene, assertsEnabled, order) ==
    LET swapped == Swapped(scene, assertsEnabled, order)
    IN  IF swapped.status = "ok" THEN swapped.operation._actions ELSE <<>>

\* A list of actions wraps entity n, or key `key` of entity n, in a conflict.
EntityWrapped(actions, n) ==
    \E i \in 1..Len(actions) :
        actions[i].type = "EntityConflict" /\ actions[i].sourceAction.node.name = n
KeyWrapped(actions, n, key) ==
    \E i \in 1..Len(actions) :
        /\ actions[i].type = "EntityKeyValueConflict"
        /\ actions[i].conflictingEntity.name = n
        /\ iequals(actions[i].sourceAction.key, key)

\* The keys of the differences of entity n on either side.
ChangedKeys(n) ==
    {SourceDiff(n).differingKeyValues[i].key :
        i \in 1..Len(SourceDiff(n).differingKeyValues)}
    \cup {TargetDiff(n).differingKeyValues[j].key :
        j \in 1..Len(TargetDiff(n).differingKeyValues)}

\* The swapped call wraps what the call wrapped.
SameWrappers(actions) ==
    \A n \in Names :
        /\ EntityWrapped(actions, n) = EntityWrapped(ActionList, n)
        /\ BothModified(n) =>
            \A key \in ChangedKeys(n) :
                KeyWrapped(actions, n, key) = KeyWrapped(ActionList, n, key)

\* KeyValueDiffHasConflicts gives the same for (a, b) and (b, a), on the
\* differences of the same key the two sides have for an entity both modified.
SymmetricConflictTest ==
    \A n \in Names : BothModified(n) =>
        \A i \in 1..Len(SourceDiff(n).differingKeyValues) :
        \A j \in 1..Len(TargetDiff(n).differingKeyValues) :
            LET s == SourceDiff(n).differingKeyValues[i]
                t == TargetDiff(n).differingKeyValues[j]
            IN  iequals(s.key, t.key) =>
                    KeyValueDiffHasConflicts(s, t) = KeyValueDiffHasConflicts(t, s)

\* C23: with unique entity names, the swapped call throws exactly if the call
\* threw and, when both return, wraps exactly the entities and keys the call
\* wrapped; KeyValueDiffHasConflicts is symmetric.  A run that assert() stops
\* at a failed lookup of a target entity raises no error and is left out.
C23_SwapThrowsAndWrapsAlike ==
    (pc \in {"returned", "thrown"} /\ UniqueNames) =>
        /\ SymmetricConflictTest
        /\ \A scene \in SourceScenes : \A assertsEnabled \in BOOLEAN :
           \A order \in IterationOrders :
            LET swapped == Swapped(scene, assertsEnabled, order)
            IN  swapped.status # "aborted" =>
                    /\ (swapped.status = "thrown") = (pc = "thrown")
                    /\ SameWrappers(IF swapped.status = "ok"
                                    THEN swapped.operation._actions ELSE <<>>)

\* The call returned; both sides modified an entity, the source removing a key
\* the target changed; the call wrapped the key, and so does the swapped call,
\* in which the source changed the key the target removed.
C23_Witness ==
    /\ pc = "returned" /\ UniqueNames
    /\ \E n \in Names :
        /\ BothModified(n)
        /\ \E i \in 1..Len(SourceDiff(n).differingKeyValues) :
           \E j \in 1..Len(TargetDiff(n).differingKeyValues) :
                LET s == SourceDiff(n).differingKeyValues[i]
                    t == TargetDiff(n).differingKeyValues[j]
                IN  /\ iequals(s.key, t.key)
                    /\ s.type = "KeyValueRemoved" /\ t.type = "KeyValueChanged"
                    /\ KeyWrapped(ActionList, n, s.key)
                    /\ \E scene \in SourceScenes : \E order \in IterationOrders :
                            KeyWrapped(SwappedActions(scene, TRUE, order), n, s.key)

\* One of the two differences added the key and the other changed it, to the
\* same value.
AddedAndChangedAlike(s, t) ==
    /\ {s.type, t.type} = {"KeyValueAdded", "KeyValueChanged"}
    /\ s.value = t.value

\* The key-value differences both sides list for entity n follow from one set
\* of keys of the base entity: a key is Added if the base lacks it, Changed
\* or Removed if the base has it.
HonestKeys(n) ==
    \E baseKeys \in SUBSET Keys :
        \A d \in {SourceDiff(n).differingKeyValues[i] :
                    i \in 1..Len(SourceDiff(n).differingKeyValues)}
                 \cup {TargetDiff(n).differingKeyValues[j] :
                    j \in 1..Len(TargetDiff(n).differingKeyValues)} :
            (d.type = "KeyValueAdded") = (\A b \in baseKeys : ~iequals(b, d.key))

\* C24: for an entity modified on both sides and a source key-value
\* difference whose key the target has a difference on, the actions about the
\* key are one unwrapped action if one difference is Added and the other
\* Changed with equal values, none if the two differences are equal, and one
\* EntityKeyValueConflictResolutionAction in every other pairing.  With keys
\* honestly derived from one base, every unwrapped key-value action is about
\* a key the target has no difference on.
C24_UnwrappedOnlyForAddedAndChangedAlike ==
    (pc = "returned" /\ UniqueNames) =>
        \A n \in Names : BothModified(n) =>
            \A i \in 1..Len(SourceDiff(n).differingKeyValues) :
                LET s == SourceDiff(n).differingKeyValues[i]
                    acts == KeyActionsOf(n, s.key)
                IN  /\ \A j \in TargetMatches(n, s.key) :
                        LET t == TargetDiff(n).differingKeyValues[j]
                        IN  CASE AddedAndChangedAlike(s, t) ->
                                    /\ Len(acts) = 1
                                    /\ IsDirectKeyValueAction(acts[1], s, TargetNode(n))
                              [] SameChange(s, t) -> acts = <<>>
                              [] OTHER ->
                                    /\ Len(acts) = 1
                                    /\ IsKeyValueWrapper(acts[1], n, s, t)
                    /\ (HonestKeys(n) /\ TargetMatches(n, s.key) # {}) =>
                            \A k \in 1..Len(acts) : IsWrapper(acts[k])

\* The call returned; both sides modified an entity: the source added a key
\* with the value the target changed it to, which no base can give rise to,
\* and its action is in the list unwrapped.
C24_Witness ==
    /\ pc = "returned" /\ UniqueNames
    /\ \E n \in Names :
        /\ BothModified(n)
        /\ ~HonestKeys(n)
        /\ \E i \in 1..Len(SourceDiff(n).differingKeyValues) :
           \E j \in 1..Len(TargetDiff(n).differingKeyValues) :
                LET s == SourceDiff(n).differingKeyValues[i]
                    t == TargetDiff(n).differingKeyValues[j]
                IN  /\ iequals(s.key, t.key)
                    /\ s.type = "KeyValueAdded" /\ t.type = "KeyValueChanged"
                    /\ s.value = t.value
                    /\ KeyActionsOf(n, s.key) = <<AddEntityKeyValueAction(TargetNode(n), s.key, s.value)>>

\* The entities an action names on the target side: the entity of a
\* RemoveEntityAction, the parent of an AddChildAction, the entity of a
\* key-value action, the conflicting entity of a wrapper and the target-side
\* entities of the actions it wraps.
PlainTargetSideEntities(a) ==
    CASE a.type = "RemoveEntity" -> {a.node}
      [] a.type = "AddChild" -> {a.parent}
      [] a.type \in KeyValueActionTypes -> {a.entity}
      [] OTHER -> {}
TargetSideEntities(a) ==
    CASE a.type = "EntityConflict" ->
            {a.conflictingEntity} \cup PlainTargetSideEntities(a.sourceAction)
      [] a.type = "EntityKeyValueConflict" ->
            {a.conflictingEntity} \cup PlainTargetSideEntities(a.sourceAction)
                                  \cup PlainTargetSideEntities(a.targetAction)
      [] OTHER -> PlainTargetSideEntities(a)

\* The node is an entity node of the target graph.
IsTargetEntity(node) ==
    /\ node.name \in DOMAIN targetScene
    /\ node = TargetNode(node.name)

\* The wrapper emitted when the source modified an entity the target removed.
IsModifiedVersusRemovedWrapper(a) ==
    a.type = "EntityConflict" /\ a.sourceAction.type = "AddEntity"

\* C25 as stated: for comparison results honestly derived from one base, every
\* target-side entity named by an action of the list is an entity node of the
\* target graph, the conflicting entity of the wrapper for a source
\* modification of an entity the target removed included.
C25_TargetSideEntitiesInTargetGraph ==
    (pc = "returned" /\ HonestlyDerived) =>
        \A i \in 1..Len(ActionList) :
            \A node \in TargetSideEntities(ActionList[i]) : IsTargetEntity(node)

\* C25, amended: for comparison results honestly derived from one base, every
\* target-side entity named by an action of the list is an entity node of the
\* target graph, except the conflicting entity of the wrapper for a source
\* modification of an entity the target removed: that one is the node of the
\* target's Removed difference, and the target graph has no entity of that
\* name.
C25_TargetSideEntitiesExceptRemoved ==
    (pc = "returned" /\ HonestlyDerived) =>
        \A i \in 1..Len(ActionList) :
            IF IsModifiedVersusRemovedWrapper(ActionList[i])
            THEN LET n == ActionList[i].sourceAction.node.name
                 IN  /\ InTarget(n) /\ IsRemoved(TargetDiff(n))
                     /\ ActionList[i].conflictingEntity = TargetDiff(n).sourceNode
                     /\ n \notin DOMAIN targetScene
                     /\ ~IsTargetEntity(ActionList[i].conflictingEntity)
            ELSE \A node \in TargetSideEntities(ActionList[i]) : IsTargetEntity(node)

\* The call returned on honestly derived differences: the source removed an
\* entity the target left alone, and the RemoveEntityAction names the
\* target's entity; the source modified another entity the target removed,
\* and the wrapper's conflicting entity is not in the target graph.
C25_Witness ==
    /\ pc = "returned" /\ HonestlyDerived
    /\ \E n \in Names : \E m \in Names \ {n} :
        /\ InSource(n) /\ ~InTarget(n) /\ IsRemoved(SourceDiff(n))
        /\ \E i \in 1..Len(ActionList) :
            /\ ActionList[i].type = "RemoveEntity"
            /\ TargetSideEntities(ActionList[i]) = {TargetNode(n)}
            /\ IsTargetEntity(TargetNode(n))
        /\ InSource(m) /\ InTarget(m)
        /\ IsModified(SourceDiff(m)) /\ IsRemoved(TargetDiff(m))
        /\ \E i \in 1..Len(ActionList) :
            /\ IsModifiedVersusRemovedWrapper(ActionList[i])
            /\ ActionList[i].sourceAction.node.name = m
            /\ ~IsTargetEntity(ActionList[i].conflictingEntity)

\* The positions of a list that hold the last difference of their name, and
\* the list cut down to them, in list order.
LastOfName(diffs) ==
    {i \in 1..Len(diffs) : \A j \in (i + 1)..Len(diffs) :
                                diffs[j].entityName # diffs[i].entityName}
OnlyLastOfName(diffs) ==
    LET last == LastOfName(diffs)
        position(k) == CHOOSE i \in last : Cardinality({j \in last : j < i}) = k - 1
    IN  [k \in 1..Cardinality(last) |-> diffs[position(k)]]
WithOnlyLastOfName(result) ==
    [result EXCEPT !.differingEntities = OnlyLastOfName(@)]
\* The call on the two comparison results cut down to the last difference of
\* every name.
CreateFromLastOfName(assertsEnabled, order) ==
    CreateFromComparisonResults(WithOnlyLastOfName(baseToSource),
                                WithOnlyLastOfName(baseToTarget),
                                targetScene, assertsEnabled, order)

\* C26: the loop runs at most once per entity name, and the call ends as it
\* ends on the two lists cut down to the last difference of every name: the
\* same action list, the same exception; the earlier differences of a name
\* are neither reconciled nor consulted and leave no action.
C26_OnlyLastOfNameCounts ==
    /\ pc # "ready" =>
        visited <= Cardinality({n \in Names : InSource(n)})
    /\ pc = "returned" =>
        /\ visited = Cardinality({n \in Names : InSource(n)})
        /\ \E order \in IterationOrders :
            /\ CreateFromLastOfName(FALSE, order).status = "ok"
            /\ CreateFromLastOfName(FALSE, order).operation._actions = ActionList
    /\ pc = "thrown" =>
        \E order \in IterationOrders :
            /\ CreateFromLastOfName(FALSE, order).status = "thrown"
            /\ CreateFromLastOfName(FALSE, order).exception = exception
    /\ pc = "aborted" =>
        \E order \in IterationOrders : CreateFromLastOfName(TRUE, order).status = "aborted"

\* The call returned; the source lists an entity twice, first as added and
\* last as removed, and the target modified it; one pass of the loop gave the
\* one wrapper of a removal of an entity the target modified.
C26_Witness ==
    /\ pc = "returned"
    /\ \E n \in Names :
        /\ Len(SourceDiffs) = 2 /\ Listed(SourceDiffs, n) = {1, 2}
        /\ IsAdded(SourceDiffs[1]) /\ IsRemoved(SourceDiffs[2])
        /\ \E j \in Listed(TargetDiffs, n) : IsModified(TargetDiffs[j])
        /\ visited = 1
        /\ ActionList = <<EntityConflictResolutionAction(
                             TargetNode(n), RemoveEntityAction(TargetNode(n)))>>

IsChildAction(a) == a.type \in {"AddChild", "RemoveChild"}
\* The place in the source's nested differences of entity n of the key-value
\* difference for `key`, and of the child difference for fingerprint fp.
KeyPosition(n, key) ==
    CHOOSE i \in 1..Len(SourceDiff(n).differingKeyValues) :
        iequals(SourceDiff(n).differingKeyValues[i].key, key)
ChildPosition(n, fp) ==
    CHOOSE i \in 1..Len(SourceDiff(n).differingChildren) :
        SourceDiff(n).differingChildren[i].fingerprint = fp
\* The actions about one entity are next to each other in the action list.
Contiguous(n) ==
    \A i \in 1..Len(ActionList) : \A k \in i..Len(ActionList) :
        (IsAbout(n, ActionList[i]) /\ IsAbout(n, ActionList[k])) =>
            \A j \in i..k : IsAbout(n, ActionList[j])
\* In a list of actions of entity n, key-value actions come in the order of
\* the source's key-value differences, child actions in that of its child
\* differences.
InSourceOrder(n, actions) ==
    \A p \in 1..Len(actions) : \A q \in (p + 1)..Len(actions) :
        /\ (IsKeyValueAction(actions[p]) /\ IsKeyValueAction(actions[q])) =>
                KeyPosition(n, ActionKey(actions[p])) < KeyPosition(n, ActionKey(actions[q]))
        /\ (IsChildAction(actions[p]) /\ IsChildAction(actions[q])) =>
                ChildPosition(n, actions[p].node.fingerprint)
                    < ChildPosition(n, actions[q].node.fingerprint)
\* Every key-value action (plain or wrapper) of the list comes before every
\* child action, or the other way round.
KeyValuesBeforeChildren(actions) ==
    \A p \in 1..Len(actions) : \A q \in 1..Len(actions) :
        (IsKeyValueAction(actions[p]) /\ IsChildAction(actions[q])) => p < q
ChildrenBeforeKeyValues(actions) ==
    \A p \in 1..Len(actions) : \A q \in 1..Len(actions) :
        (IsChildAction(actions[p]) /\ IsKeyValueAction(actions[q])) => p < q

LiveHandles == {allocation[1] : allocation \in allocations}
RangeOf(handle) ==
    {e \in 0..(MaxBufferSize + MaxChunk) :
        /\ getOffset(TheBuffer, handle) <= e
        /\ e < getOffset(TheBuffer, handle) + getSize(TheBuffer, handle)}

\* C28: after any sequence of allocate(n), n > 0, and deallocate(h) on live
\* handles, the ranges of the live allocations lie inside the buffer and the
\* ranges of two live handles are disjoint, growth of the buffer included.
C28_LiveRangesDisjointInsideBuffer ==
    bufferStatus = "ok" =>
        \A h \in LiveHandles :
            /\ getOffset(TheBuffer, h) + getSize(TheBuffer, h) <= _bufferSize
            /\ \A g \in LiveHandles \ {h} : RangeOf(h) \cap RangeOf(g) = {}

\* The step is a call of allocate that returns `handle`.
AllocateReturns(handle) ==
    \E requiredSize \in 1..MaxChunk : \E assertsEnabled \in BOOLEAN :
        LET call == allocate(TheBuffer, requiredSize, assertsEnabled)
        IN  /\ call.status = "ok"
            /\ call.handle = handle
            /\ calls' = calls + 1
            /\ _bufferSize' = call.buffer._bufferSize
            /\ _slots' = call.buffer._slots
            /\ _emptySlots' = call.buffer._emptySlots
            /\ allocations' = allocations \cup {<<handle, requiredSize>>}
RecycledHandles == {_emptySlots[i] : i \in 1..Len(_emptySlots)}

\* C29: no call of allocate returns a handle that is live, that is, returned
\* earlier and not yet deallocated, nor a handle waiting on the stack of
\* recycled handles.
C29_AllocateReturnsFreshHandle ==
    [][\A handle \in LiveHandles \cup RecycledHandles : ~AllocateReturns(handle)]_vars

====
